---- MODULE Spec2Model ----
(***************************************************************************)
(* Fixed-point model of the EchoScope per-aircraft flight-dynamics and     *)
(* guidance engine (public/js/main.js: gameLoop and class Aircraft) and of *)
(* the approach-assignment handler (public/js/mapRenderer.js).             *)
(*                                                                         *)
(* Units.  JavaScript numbers are modelled as scaled integers:             *)
(*   angles            tenths of a degree          (deg10)                 *)
(*   speeds            tenths of a knot            (kn10)                  *)
(*   altitude          feet                                                *)
(*   vertical speed    feet per minute                                     *)
(*   lat / lon         decametres north / east of a reference point on    *)
(*                     the equator (0.001 degree of arc = 11.119 dam), so  *)
(*                     that the spherical formulas of the source reduce to *)
(*                     their planar limits at the model's resolution       *)
(*   distances         decametres (0.2 km = 20, 1.0 km = 100, 30 km = 3000)*)
(*   time steps        milliseconds                                        *)
(*   PID integral      dam * ms  (1 km*s = 100000)                         *)
(*   trig values       scaled by TrigScale                                 *)
(* The IEEE value NaN is the distinguished value NaN.                      *)
(***************************************************************************)
EXTENDS Integers, Sequences, FiniteSets, TLC

\* ------------------------------------------------------------------------
\* Arithmetic helpers
\* ------------------------------------------------------------------------

NaN == 0 - 999999999

NULL == [null |-> TRUE]

IsNaN(x) == x = NaN

\* IEEE +Infinity; -Infinity is its negation.
Infinity == 888888888

Abs(x) == IF x < 0 THEN 0 - x ELSE x

Sign(x) == IF x > 0 THEN 1 ELSE IF x < 0 THEN 0 - 1 ELSE 0

Min(a, b) == IF a < b THEN a ELSE b

Max(a, b) == IF a > b THEN a ELSE b

\* JavaScript's % operator: the remainder takes the sign of the dividend.
JsRem(a, b) == IF a >= 0 THEN a % b ELSE 0 - ((0 - a) % b)

\* Division of two scaled integers, rounded to the nearest integer.
RDiv(a, b) == IF a >= 0 THEN (2 * a + b) \div (2 * b)
                        ELSE 0 - ((2 * (0 - a) + b) \div (2 * b))

TrigScale == 10000

SinTable ==
  << 0, 175, 349, 523, 698, 872, 1045, 1219, 1392, 1564, 1736, 1908, 2079,
     2250, 2419, 2588, 2756, 2924, 3090, 3256, 3420, 3584, 3746, 3907,
     4067, 4226, 4384, 4540, 4695, 4848, 5000, 5150, 5299, 5446, 5592,
     5736, 5878, 6018, 6157, 6293, 6428, 6561, 6691, 6820, 6947, 7071,
     7193, 7314, 7431, 7547, 7660, 7771, 7880, 7986, 8090, 8192, 8290,
     8387, 8480, 8572, 8660, 8746, 8829, 8910, 8988, 9063, 9135, 9205,
     9272, 9336, 9397, 9455, 9511, 9563, 9613, 9659, 9703, 9744, 9781,
     9816, 9848, 9877, 9903, 9925, 9945, 9962, 9976, 9986, 9994, 9998,
     10000 >>

\* sin of t tenths of a degree, 0 <= t <= 900, linearly interpolated.
SinQ(t) ==
  LET d == t \div 10
      f == t % 10
  IN  IF f = 0 THEN SinTable[d + 1]
      ELSE SinTable[d + 1] + ((SinTable[d + 2] - SinTable[d + 1]) * f) \div 10

\* Math.sin / Math.cos of an angle given in tenths of a degree.
Sin10(a) ==
  LET m == a % 3600
  IN  IF m <= 900 THEN SinQ(m)
      ELSE IF m <= 1800 THEN SinQ(1800 - m)
      ELSE IF m <= 2700 THEN 0 - SinQ(m - 1800)
      ELSE 0 - SinQ(3600 - m)

Cos10(a) == Sin10(a + 900)

\* Math.tan, scaled by TrigScale.
Tan10(a) == RDiv(Sin10(a) * TrigScale, Cos10(a))

RECURSIVE SqrtSearch(_, _, _)
SqrtSearch(n, lo, hi) ==
  IF lo >= hi THEN lo
  ELSE LET mid == (lo + hi + 1) \div 2
       IN  IF mid * mid <= n THEN SqrtSearch(n, mid, hi)
           ELSE SqrtSearch(n, lo, mid - 1)

\* Math.sqrt on a non-negative integer (floor).
Sqrt(n) ==
  IF n < 10000 THEN SqrtSearch(n, 0, 99)
  ELSE IF n < 1000000 THEN SqrtSearch(n, 100, 999)
  ELSE IF n < 100000000 THEN SqrtSearch(n, 1000, 9999)
  ELSE SqrtSearch(n, 10000, 46340)

RECURSIVE AsinSearch(_, _, _)
AsinSearch(r, lo, hi) ==
  IF lo >= hi THEN lo
  ELSE LET mid == (lo + hi + 1) \div 2
       IN  IF SinQ(mid) <= r THEN AsinSearch(r, mid, hi)
           ELSE AsinSearch(r, lo, mid - 1)

\* Math.asin of r / TrigScale, |r| <= TrigScale, in tenths of a degree.
Asin10(r) == Sign(r) * AsinSearch(Abs(r), 0, 900)

RECURSIVE AtanSearch(_, _, _, _)
AtanSearch(ay, ax, lo, hi) ==
  IF lo >= hi THEN lo
  ELSE LET mid == (lo + hi + 1) \div 2
       IN  IF SinQ(mid) * ax <= SinQ(900 - mid) * ay
           THEN AtanSearch(ay, ax, mid, hi)
           ELSE AtanSearch(ay, ax, lo, mid - 1)

\* Math.atan2(y, x) in tenths of a degree, in (-1800, 1800].
Atan2(y, x) ==
  IF x = 0 /\ y = 0 THEN 0
  ELSE LET a == AtanSearch(Abs(y), Abs(x), 0, 900)
       IN  IF x >= 0 THEN (IF y >= 0 THEN a ELSE 0 - a)
           ELSE (IF y >= 0 THEN 1800 - a ELSE 0 - (1800 - a))

\* ------------------------------------------------------------------------
\* Configuration (config.js) and unit constants (utils.js)
\* ------------------------------------------------------------------------

SWEEP_INTERVAL_MS == 2000

\* Wind FROM direction (deg10) and wind speed (kn10).
windDirection == 2700

windSpeed == 500

\* turnRate in deg10/s, climb/descent in ft/min, accel/decel in kn10/s.
AIRCRAFT_PERFORMANCE ==
  [ L |-> [turnRate |-> 35, climbRate |-> 1800, descentRate |-> 2000,
           accelerationRate |-> 40, decelerationRate |-> 30],
    M |-> [turnRate |-> 30, climbRate |-> 2200, descentRate |-> 2500,
           accelerationRate |-> 30, decelerationRate |-> 20],
    H |-> [turnRate |-> 25, climbRate |-> 1500, descentRate |-> 2200,
           accelerationRate |-> 20, decelerationRate |-> 15],
    J |-> [turnRate |-> 20, climbRate |-> 1200, descentRate |-> 2000,
           accelerationRate |-> 15, decelerationRate |-> 10] ]

\* KNOTS_TO_KPS = 0.000514444 km/s per knot, here in units of 1e-6.
KNOTS_TO_KPS == 514

\* Distance in dam covered in dtMs milliseconds at v kn10:
\* (v / 10) * KNOTS_TO_KPS * (dtMs / 1000) km.
MoveDam(v, dtMs) == RDiv(RDiv(v * dtMs, 1000) * KNOTS_TO_KPS, 100000)

\* ------------------------------------------------------------------------
\* Geodesy (utils.js)
\* ------------------------------------------------------------------------

calculateBearing(lat1, lon1, lat2, lon2) ==
  IF IsNaN(lat1) \/ IsNaN(lon1) THEN NaN
  ELSE JsRem(Atan2(lon2 - lon1, lat2 - lat1) + 3600, 3600)

calculateDistance(lat1, lon1, lat2, lon2) ==
  IF IsNaN(lat1) \/ IsNaN(lon1) \/ IsNaN(lat2) \/ IsNaN(lon2) THEN NaN
  ELSE Sqrt((lat2 - lat1) * (lat2 - lat1) + (lon2 - lon1) * (lon2 - lon1))

\* asin(sin(d13/R) * sin(brng13 - brng12)) * R.  With d13*sin(brng13) the
\* east and d13*cos(brng13) the north offset of the point from the line's
\* start, this is  east*cos(brng12) - north*sin(brng12).
calculateCrossTrackError(lat, lon, startLat, startLon, bearing) ==
  IF IsNaN(lat) \/ IsNaN(lon) THEN NaN
  ELSE RDiv((lon - startLon) * Cos10(bearing)
              - (lat - startLat) * Sin10(bearing), TrigScale)

\* latLonToPixel, in dam: x east, y growing downward.
latLonToPixel(lat, lon) ==
  [x |-> lon, y |-> IF IsNaN(lat) THEN NaN ELSE 0 - lat]

\* ------------------------------------------------------------------------
\* Wind-corrected heading (inlined three times in Aircraft.update)
\* ------------------------------------------------------------------------

\* IAS * (1 + (altitude / 1000) * 0.02)
TasOf(ias, altitude) ==
  IF IsNaN(ias) \/ IsNaN(altitude) THEN NaN
  ELSE RDiv(ias * (50000 + altitude), 50000)

\* "... || 1.0": the fallback is taken when the product is 0 or NaN.
TasEstimate(ias, altitude) ==
  LET tas == TasOf(ias, altitude)
  IN  IF IsNaN(tas) \/ tas = 0 THEN 10 ELSE tas

\* Wind correction angle for a desired ground track, deg10.
WindCorrectionAngle(desiredTrack, tasEstimate) ==
  LET crosswind == RDiv(windSpeed * Sin10(windDirection - desiredTrack),
                        TrigScale)
      ratio == RDiv(crosswind * TrigScale, tasEstimate)
  IN  IF Abs(ratio) >= TrigScale THEN Sign(ratio) * 900 ELSE Asin10(ratio)

RequiredHeading(desiredTrack, tasEstimate) ==
  IF IsNaN(desiredTrack) THEN NaN
  ELSE JsRem(desiredTrack + WindCorrectionAngle(desiredTrack, tasEstimate)
               + 3600, 3600)

\* ------------------------------------------------------------------------
\* class Aircraft: constructor
\* ------------------------------------------------------------------------

DefaultLocPID ==
  [kp |-> 80, ki |-> 0, kd |-> 10, integral |-> 0, lastError |-> 0,
   integralLimit |-> 500000]

Performance(wtc) ==
  IF wtc \in DOMAIN AIRCRAFT_PERFORMANCE THEN AIRCRAFT_PERFORMANCE[wtc]
  ELSE AIRCRAFT_PERFORMANCE["M"]

Aircraft(lat, lon, heading, altitude, speed, destination, wtc, initialPhase) ==
  [ lat |-> lat, lon |-> lon, destination |-> destination, wtc |-> wtc,
    targetWaypoint |-> NULL, assignedProcedure |-> NULL,
    procedureWaypoints |-> << >>, currentWaypointIndex |-> 0 - 1,
    autopilotActive |-> FALSE,
    interceptingLOC |-> FALSE, interceptingGS |-> FALSE,
    followingILS |-> FALSE, ilsData |-> NULL, landed |-> FALSE,
    turnRate |-> Performance(wtc).turnRate,
    climbRate |-> Performance(wtc).climbRate,
    descentRate |-> Performance(wtc).descentRate,
    accelerationRate |-> Performance(wtc).accelerationRate,
    decelerationRate |-> Performance(wtc).decelerationRate,
    altitude |-> altitude, targetAlt |-> altitude, verticalSpeed |-> 0,
    heading |-> heading, targetHdg |-> heading, track |-> heading,
    indicatedAirspeed |-> speed, targetSpd |-> speed,
    trueAirspeed |-> 0, groundSpeed |-> 0,
    phase |-> initialPhase,
    displayX |-> latLonToPixel(lat, lon).x,
    displayY |-> latLonToPixel(lat, lon).y, displayHdg |-> heading,
    predictedPath |-> << >>,
    locPID |-> DefaultLocPID ]

\* ------------------------------------------------------------------------
\* Aircraft.update(deltaTime), block by block.  dt is in milliseconds.
\* ------------------------------------------------------------------------

\* Direct-to heading: wind-corrected bearing to the target waypoint.
DirectToHeading(p) ==
  IF p.targetWaypoint # NULL /\ p.autopilotActive /\ ~p.followingILS
  THEN LET bearing == calculateBearing(p.lat, p.lon, p.targetWaypoint.lat,
                                       p.targetWaypoint.lon)
           tasEstimate == TasEstimate(p.indicatedAirspeed, p.altitude)
       IN  [p EXCEPT !.targetHdg = RequiredHeading(bearing, tasEstimate)]
  ELSE p

\* Faulty variant: the difference is not wrapped into the shorter arc.
TurnDiffUnwrapped(target, current) == target - current

\* Shortest-direction signed difference target - current.
TurnDiff(target, current) ==
  LET d0 == target - current
      d1 == IF d0 > 1800 THEN d0 - 3600 ELSE d0
  IN  IF d1 < 0 - 1800 THEN d1 + 3600 ELSE d1

\* Faulty variant: the step is applied without looking at what is left.
TurnTowardOvershoot(heading, target, turnRate, dt) ==
  IF IsNaN(heading) \/ IsNaN(target) THEN NaN
  ELSE LET turnStep == RDiv(turnRate * dt, 1000)
           diff == TurnDiff(target, heading)
       IN  JsRem(heading + turnStep * Sign(diff) + 3600, 3600)

\* One heading step of turnRate * dt toward target.
TurnToward(heading, target, turnRate, dt) ==
  IF IsNaN(heading) \/ IsNaN(target) THEN NaN
  ELSE LET turnStep == RDiv(turnRate * dt, 1000)
           diff == TurnDiff(target, heading)
           h == IF Abs(diff) < turnStep THEN target
                ELSE heading + turnStep * Sign(diff)
       IN  JsRem(h + 3600, 3600)

\* 1. HEADING LOGIC
HeadingLogic(p, dt) ==
  IF p.heading # p.targetHdg \/ IsNaN(p.heading)
  THEN [p EXCEPT !.heading = TurnToward(p.heading, p.targetHdg,
                                        p.turnRate, dt)]
  ELSE p

\* Faulty variant: the altitude steps toward targetAlt on the ILS as well.
AltitudeLogicIgnoringIls(p, dt) ==
  LET altDiff == p.targetAlt - p.altitude
  IN  IF ~IsNaN(p.altitude) /\ Abs(altDiff) > 10
      THEN IF altDiff > 0
           THEN [p EXCEPT
                  !.altitude = p.altitude
                     + Min(RDiv(p.climbRate * dt, 60000), altDiff),
                  !.verticalSpeed = p.climbRate]
           ELSE [p EXCEPT
                  !.altitude = p.altitude
                     + Max(0 - RDiv(p.descentRate * dt, 60000), altDiff),
                  !.verticalSpeed = 0 - p.descentRate]
      ELSE [p EXCEPT !.altitude = p.targetAlt, !.verticalSpeed = 0]

\* 2. ALTITUDE LOGIC
AltitudeLogic(p, dt) ==
  IF ~p.followingILS
  THEN LET altDiff == p.targetAlt - p.altitude
       IN  IF ~IsNaN(p.altitude) /\ Abs(altDiff) > 10
           THEN IF altDiff > 0
                THEN [p EXCEPT
                       !.altitude = p.altitude
                          + Min(RDiv(p.climbRate * dt, 60000), altDiff),
                       !.verticalSpeed = p.climbRate]
                ELSE [p EXCEPT
                       !.altitude = p.altitude
                          + Max(0 - RDiv(p.descentRate * dt, 60000), altDiff),
                       !.verticalSpeed = 0 - p.descentRate]
           ELSE [p EXCEPT !.altitude = p.targetAlt, !.verticalSpeed = 0]
  ELSE IF IsNaN(p.altitude) \/ IsNaN(p.verticalSpeed)
       THEN [p EXCEPT !.altitude = NaN]
       ELSE [p EXCEPT !.altitude =
                p.altitude + RDiv(p.verticalSpeed * RDiv(dt, 100), 600)]

\* 3. SPEED LOGIC
SpeedLogic(p, dt) ==
  LET speedDiff == p.targetSpd - p.indicatedAirspeed
  IN  IF Abs(speedDiff) > 5
      THEN IF speedDiff > 0
           THEN [p EXCEPT !.indicatedAirspeed = p.indicatedAirspeed
                    + Min(RDiv(p.accelerationRate * dt, 1000), speedDiff)]
           ELSE [p EXCEPT !.indicatedAirspeed = p.indicatedAirspeed
                    + Max(0 - RDiv(p.decelerationRate * dt, 1000), speedDiff)]
      ELSE [p EXCEPT !.indicatedAirspeed = p.targetSpd]

\* ILS record accessors: "ilsData.gsElevation || 0", "ilsData.gsAngle || 3.0".
LocBearing(ils) == JsRem(ils.bearing + ils.declination + 3600, 3600)

GsElevation(ils) == ils.gsElevation

GsAngle(ils) == IF ils.gsAngle = 0 THEN 30 ELSE ils.gsAngle

DistToThreshold(p) == calculateDistance(p.lat, p.lon, p.ilsData.lat, p.ilsData.lon)

XtkError(p) ==
  calculateCrossTrackError(p.lat, p.lon, p.ilsData.lat, p.ilsData.lon,
                           JsRem(LocBearing(p.ilsData) + 1800, 3600))

\* Height (ft) of the glideslope beam at dist dam from the threshold:
\* gsElevation + dist_km * 3280.84 * tan(gsAngle).
BeamAlt(ils, dist) ==
  IF IsNaN(dist) THEN NaN
  ELSE GsElevation(ils)
         + RDiv(RDiv(dist * 3281, 100) * Tan10(GsAngle(ils)), TrigScale)

\* |((track - locBearing + 540) % 360) - 180|
TrackOffset(track, locBearing) ==
  Abs(JsRem(track - locBearing + 5400, 3600) - 1800)

\* 3. LOCALIZER INTERCEPTION LOGIC
LocCaptureCondition(p, distToThreshold, xtkError) ==
  /\ ~p.interceptingLOC
  /\ ~IsNaN(distToThreshold)
  /\ distToThreshold < 3000
  /\ Abs(xtkError) < 100
  /\ ~IsNaN(p.track)
  /\ TrackOffset(p.track, LocBearing(p.ilsData)) < 300

LocalizerInterception(p, distToThreshold, xtkError) ==
  IF LocCaptureCondition(p, distToThreshold, xtkError)
  THEN [p EXCEPT !.interceptingLOC = TRUE,
                 !.autopilotActive = FALSE,
                 !.locPID.integral = 0,
                 !.locPID.lastError = xtkError]
  ELSE p

\* 4. GLIDESLOPE INTERCEPTION LOGIC
\* Faulty variant: capture within 100 ft of the beam from either side.
GsCaptureConditionEitherSide(p, distToThreshold) ==
  LET beamAlt == BeamAlt(p.ilsData, distToThreshold)
  IN  /\ p.interceptingLOC
      /\ ~p.interceptingGS
      /\ ~IsNaN(beamAlt)
      /\ ~IsNaN(p.altitude)
      /\ Abs(p.altitude - beamAlt) < 100

GsCaptureCondition(p, distToThreshold) ==
  LET beamAlt == BeamAlt(p.ilsData, distToThreshold)
  IN  /\ p.interceptingLOC
      /\ ~p.interceptingGS
      /\ ~IsNaN(beamAlt)
      /\ ~IsNaN(p.altitude)
      /\ p.altitude <= beamAlt
      /\ Abs(p.altitude - beamAlt) < 100

\* Faulty variant: the capture records followingILS only.
GlideslopeInterceptionOneFlag(p, distToThreshold) ==
  IF GsCaptureCondition(p, distToThreshold)
  THEN [p EXCEPT !.followingILS = TRUE]
  ELSE p

GlideslopeInterception(p, distToThreshold) ==
  IF GsCaptureCondition(p, distToThreshold)
  THEN [p EXCEPT !.interceptingGS = TRUE, !.followingILS = TRUE]
  ELSE p

\* Math.max(-limit, Math.min(limit, x))
Clamp(x, limit) == IF IsNaN(x) THEN NaN ELSE Max(0 - limit, Min(limit, x))

\* kd * (error - lastError) / dt in deg10; dividing by dt = 0 yields NaN
\* (0/0, or 0 * Infinity) or a signed Infinity.
DerivativeTerm(kd, error, lastError, dt) ==
  IF IsNaN(error) \/ IsNaN(lastError) THEN NaN
  ELSE IF dt = 0
       THEN IF error = lastError \/ kd = 0 THEN NaN
            ELSE Sign(kd) * Sign(error - lastError) * Infinity
       ELSE RDiv(kd * (error - lastError) * 100, dt)

\* kp*error + ki*integral + kd*derivative clamped to +-30 degrees (deg10).
PidCorrection(pid, error, integral, dt) ==
  LET d == DerivativeTerm(pid.kd, error, pid.lastError, dt)
  IN  IF IsNaN(error) \/ IsNaN(integral) \/ IsNaN(d) THEN NaN
      ELSE IF d = Infinity THEN 300
      ELSE IF d = 0 - Infinity THEN 0 - 300
      ELSE Max(0 - 300, Min(300, RDiv(pid.kp * error, 10)
                                   + RDiv(pid.ki * integral, 10000) + d))

\* 5. LATERAL GUIDANCE: track the localizer with the PID controller.
LateralGuidance(p, dt, xtkError) ==
  IF p.interceptingLOC
  THEN LET error == xtkError
           integral == IF IsNaN(error) \/ IsNaN(p.locPID.integral) THEN NaN
                       ELSE Clamp(p.locPID.integral + error * dt,
                                  p.locPID.integralLimit)
           correction == PidCorrection(p.locPID, error, integral, dt)
       IN  [p EXCEPT !.locPID.integral = integral,
                     !.locPID.lastError = error,
                     !.targetHdg =
                        IF IsNaN(correction) THEN NaN
                        ELSE JsRem(LocBearing(p.ilsData) + correction + 3600,
                                   3600)]
  ELSE p

\* 5. VERTICAL GUIDANCE: -(groundSpeed*101.269*tan(gsAngle) + altError*5).
VerticalGuidance(p, distToThreshold) ==
  IF p.interceptingGS
  THEN LET beamAlt == BeamAlt(p.ilsData, distToThreshold)
       IN  IF IsNaN(beamAlt) \/ IsNaN(p.altitude) \/ IsNaN(p.groundSpeed)
           THEN [p EXCEPT !.verticalSpeed = NaN]
           ELSE LET altError == p.altitude - beamAlt
                    baseDescent ==
                      RDiv(RDiv(p.groundSpeed * 10127, 1000)
                             * Tan10(GsAngle(p.ilsData)), TrigScale)
                IN  [p EXCEPT !.verticalSpeed =
                                 0 - (baseDescent + altError * 5)]
  ELSE p

\* 6. LANDING TRIGGER
LandingTriggerCondition(p, distToThreshold) ==
  \/ (~IsNaN(distToThreshold) /\ distToThreshold < 25)
  \/ (p.interceptingGS /\ ~IsNaN(p.altitude)
        /\ p.altitude < GsElevation(p.ilsData) + 50)

\* Faulty variant: the trigger marks the aircraft landed at any speed.
LandingTriggerAtAnySpeed(p, distToThreshold) ==
  IF LandingTriggerCondition(p, distToThreshold)
  THEN [p EXCEPT !.phase = "landing", !.targetSpd = 0, !.landed = TRUE]
  ELSE p

LandingTrigger(p, distToThreshold) ==
  IF LandingTriggerCondition(p, distToThreshold)
  THEN [p EXCEPT !.phase = "landing", !.targetSpd = 0,
                 !.landed = IF p.indicatedAirspeed < 300 THEN TRUE
                            ELSE p.landed]
  ELSE p

IlsActive(p) ==
  /\ p.assignedProcedure # NULL
  /\ p.assignedProcedure.type = "approach"
  /\ p.ilsData # NULL

\* The whole "if (assignedProcedure ... && ilsData)" block.
IlsLogic(p, dt) ==
  IF IlsActive(p)
  THEN LET distToThreshold == DistToThreshold(p)
           xtkError == XtkError(p)
           p3 == LocalizerInterception(p, distToThreshold, xtkError)
           p4 == GlideslopeInterception(p3, distToThreshold)
           p5 == VerticalGuidance(LateralGuidance(p4, dt, xtkError),
                                  distToThreshold)
       IN  LandingTrigger(p5, distToThreshold)
  ELSE p

\* Wind vector (kn10): the wind blows toward windDirection - 180.
WindVector ==
  [x |-> RDiv(windSpeed * Sin10(windDirection - 1800), TrigScale),
   y |-> RDiv(windSpeed * Cos10(windDirection - 1800), TrigScale)]

\* Ground vector (kn10): true airspeed tas along heading plus the wind.
GroundVector(tas, heading) ==
  [x |-> RDiv(tas * Sin10(heading), TrigScale) + WindVector.x,
   y |-> RDiv(tas * Cos10(heading), TrigScale) + WindVector.y]

VectorLength(v) == Sqrt(v.x * v.x + v.y * v.y)

\* Faulty variant: no 0.2 km minimum.
LeadTurnRadiusNoFloor(angToTurn, turnRate, groundSpeed) ==
  LET timeToTurn == IF turnRate > 0 THEN RDiv(angToTurn * 1000, turnRate)
                    ELSE 0
      distanceDuringTurn == MoveDam(groundSpeed, timeToTurn)
  IN  RDiv(distanceDuringTurn * 115, 100) + 3

\* max(0.2, distanceDuringTurnKm * 1.15 + 0.03) in dam, for a turn of
\* angToTurn deg10 at turnRate deg10/s flown at groundSpeed kn10.
LeadTurnRadius(angToTurn, turnRate, groundSpeed) ==
  LET timeToTurn == IF turnRate > 0 THEN RDiv(angToTurn * 1000, turnRate)
                    ELSE 0
      distanceDuringTurn == MoveDam(groundSpeed, timeToTurn)
  IN  Max(20, RDiv(distanceDuringTurn * 115, 100) + 3)

\* Capture radius (dam) at the active waypoint currentWp; nextWp is NULL
\* when the procedure has no further waypoint.
CaptureRadius(p, currentWp, nextWp) ==
  IF nextWp = NULL THEN 20
  ELSE IF IsNaN(p.heading) THEN NaN
  ELSE LET desiredTrack == calculateBearing(currentWp.lat, currentWp.lon,
                                            nextWp.lat, nextWp.lon)
           tasEstimate == TasEstimate(p.indicatedAirspeed, p.altitude)
           desiredHeading == RequiredHeading(desiredTrack, tasEstimate)
           angToTurn == Abs(TurnDiff(desiredHeading, p.heading))
           groundSpeedApprox == VectorLength(GroundVector(tasEstimate,
                                                          p.heading))
       IN  LeadTurnRadius(angToTurn, p.turnRate, groundSpeedApprox)

\* procedureWaypoints[i] for a 0-based JavaScript index, NULL if undefined.
WaypointAt(p, i) ==
  IF i >= 0 /\ i < Len(p.procedureWaypoints)
  THEN p.procedureWaypoints[i + 1] ELSE NULL

CopyWaypoint(wp) == [name |-> wp.name, lat |-> wp.lat, lon |-> wp.lon]

ProcedureFollowingActive(p) ==
  p.autopilotActive /\ Len(p.procedureWaypoints) > 0 /\ ~p.followingILS

\* "Ensure we have a valid current waypoint index"
EnsureWaypointIndex(p) ==
  IF p.currentWaypointIndex < 0
  THEN [p EXCEPT !.currentWaypointIndex = 0,
                 !.targetWaypoint = CopyWaypoint(p.procedureWaypoints[1])]
  ELSE p

\* dist < captureRadius at the active waypoint of q (index already valid).
WithinCaptureRadius(q) ==
  LET currentWp == WaypointAt(q, q.currentWaypointIndex)
      nextWp == WaypointAt(q, q.currentWaypointIndex + 1)
      dist == calculateDistance(q.lat, q.lon, currentWp.lat, currentWp.lon)
      captureRadius == CaptureRadius(q, currentWp, nextWp)
  IN  ~IsNaN(dist) /\ ~IsNaN(captureRadius) /\ dist < captureRadius

\* Faulty variant: the last waypoint's capture advances the index but
\* leaves the autopilot engaged on it.
SequenceWaypointNoCompletion(q) ==
  LET nextIndex == q.currentWaypointIndex + 1
      nextWp == WaypointAt(q, nextIndex)
  IN  IF nextWp # NULL
      THEN [q EXCEPT !.currentWaypointIndex = nextIndex,
                     !.targetWaypoint = CopyWaypoint(nextWp)]
      ELSE [q EXCEPT !.currentWaypointIndex = nextIndex]

SequenceWaypoint(q) ==
  LET nextIndex == q.currentWaypointIndex + 1
      nextWp == WaypointAt(q, nextIndex)
  IN  IF nextWp # NULL
      THEN [q EXCEPT !.currentWaypointIndex = nextIndex,
                     !.targetWaypoint = CopyWaypoint(nextWp)]
      ELSE IF nextIndex >= Len(q.procedureWaypoints)
           THEN [q EXCEPT !.currentWaypointIndex = nextIndex,
                          !.autopilotActive = FALSE,
                          !.targetWaypoint = NULL]
           ELSE [q EXCEPT !.currentWaypointIndex = nextIndex]

\* AUTOPILOT PROCEDURE FOLLOWING (with lead-turn/time-to-turn)
ProcedureFollowing(p) ==
  IF ProcedureFollowingActive(p)
  THEN LET q == EnsureWaypointIndex(p)
       IN  IF WaypointAt(q, q.currentWaypointIndex) # NULL
              /\ WithinCaptureRadius(q)
           THEN SequenceWaypoint(q)
           ELSE q
  ELSE p

\* 4./5. True airspeed, ground speed and track.
GroundSpeedCalculation(p) ==
  LET tas == TasOf(p.indicatedAirspeed, p.altitude)
  IN  IF IsNaN(tas) \/ IsNaN(p.heading)
      THEN [p EXCEPT !.trueAirspeed = tas, !.groundSpeed = NaN,
                     !.track = NaN]
      ELSE LET gs == GroundVector(tas, p.heading)
           IN  [p EXCEPT !.trueAirspeed = tas,
                         !.groundSpeed = VectorLength(gs),
                         !.track = JsRem(Atan2(gs.x, gs.y) + 3600, 3600)]

\* Faulty variant: the position advances along the heading at the true
\* airspeed, without the wind.
PositionalUpdateNoWind(p, dt) ==
  IF IsNaN(p.groundSpeed) \/ IsNaN(p.lat) \/ IsNaN(p.lon)
  THEN [p EXCEPT !.lat = NaN, !.lon = NaN]
  ELSE [p EXCEPT
         !.lat = p.lat + MoveDam(RDiv(p.trueAirspeed * Cos10(p.heading),
                                      TrigScale), dt),
         !.lon = p.lon + MoveDam(RDiv(p.trueAirspeed * Sin10(p.heading),
                                      TrigScale), dt)]

\* 6. POSITIONAL UPDATE: groundSpeed * KNOTS_TO_KPS * dt along the track.
PositionalUpdate(p, dt) ==
  IF IsNaN(p.groundSpeed) \/ IsNaN(p.lat) \/ IsNaN(p.lon)
  THEN [p EXCEPT !.lat = NaN, !.lon = NaN]
  ELSE LET gs == GroundVector(p.trueAirspeed, p.heading)
       IN  [p EXCEPT !.lat = p.lat + MoveDam(gs.y, dt),
                     !.lon = p.lon + MoveDam(gs.x, dt)]

\* Aircraft.update(deltaTime)
Update(p, dt) ==
  PositionalUpdate(
    GroundSpeedCalculation(
      ProcedureFollowing(
        IlsLogic(
          SpeedLogic(
            AltitudeLogic(
              HeadingLogic(DirectToHeading(p), dt), dt), dt), dt))), dt)

\* ------------------------------------------------------------------------
\* Command surface of class Aircraft
\* ------------------------------------------------------------------------

\* Faulty variant: a single remainder, which keeps the sign of a negative
\* input.
NormalizeHeadingOnce(newHeading) == JsRem(newHeading, 3600)

\* ((newHeading % 360) + 360) % 360
NormalizeHeading(newHeading) == JsRem(JsRem(newHeading, 3600) + 3600, 3600)

\* Faulty variant: a manual heading takes the aircraft off the ILS.
setHeadingLeavingIls(p, newHeading) ==
  [p EXCEPT !.targetHdg = NormalizeHeading(newHeading),
            !.targetWaypoint = NULL,
            !.autopilotActive = FALSE,
            !.interceptingLOC = FALSE,
            !.interceptingGS = FALSE,
            !.followingILS = FALSE]

setHeading(p, newHeading) ==
  [p EXCEPT !.targetHdg = NormalizeHeading(newHeading),
            !.targetWaypoint = NULL,
            !.autopilotActive = FALSE]

\* Faulty variant: no lower limit.
setSpeedUnbounded(p, newSpeed) == [p EXCEPT !.targetSpd = newSpeed]

setSpeed(p, newSpeed) == [p EXCEPT !.targetSpd = Max(1200, newSpeed)]

setAltitude(p, newAltitude) == [p EXCEPT !.targetAlt = newAltitude]

setLocPID(p, kp, ki, kd, integralLimit) ==
  [p EXCEPT !.locPID = [kp |-> kp, ki |-> ki, kd |-> kd,
                        integralLimit |-> integralLimit,
                        integral |-> 0, lastError |-> 0]]

\* Faulty variant: the name alone decides.
WaypointMatchesByName(wp, waypoint) == wp.name = waypoint.name

\* wp.name === waypoint.name && |wp.lat - waypoint.lat| < 0.001
\*                           && |wp.lon - waypoint.lon| < 0.001
\* (0.001 degree = 11.119 dam, so "< 0.001" is "<= 11 dam").
WaypointMatches(wp, waypoint) ==
  /\ wp.name = waypoint.name
  /\ Abs(wp.lat - waypoint.lat) <= 11
  /\ Abs(wp.lon - waypoint.lon) <= 11

RECURSIVE FindIndexFrom(_, _, _)
FindIndexFrom(wps, waypoint, i) ==
  IF i > Len(wps) THEN 0 - 1
  ELSE IF WaypointMatches(wps[i], waypoint) THEN i - 1
  ELSE FindIndexFrom(wps, waypoint, i + 1)

\* procedureWaypoints.findIndex(...): 0-based index of the first match, or -1.
FindWaypointIndex(wps, waypoint) == FindIndexFrom(wps, waypoint, 1)

flyDirectTo(p, waypoint) ==
  LET index == FindWaypointIndex(p.procedureWaypoints, waypoint)
  IN  IF index # 0 - 1
      THEN [p EXCEPT !.currentWaypointIndex = index,
                     !.targetWaypoint = waypoint,
                     !.autopilotActive = TRUE]
      ELSE [p EXCEPT !.currentWaypointIndex = 0 - 1,
                     !.targetWaypoint = waypoint,
                     !.autopilotActive = TRUE]

\* ------------------------------------------------------------------------
\* Procedures panel (procedures.js): buildProcedurePoints and the assign
\* button's click handler
\* ------------------------------------------------------------------------

\* JavaScript null where the other values of the field are strings.
NoTransition == "null"

\* String(r.waypointType)[2] === 'M'
IsMissedApproachRow(r) ==
  Len(r.waypointType) >= 3 /\ r.waypointType[3] = "M"

RECURSIVE FirstMissedFrom(_, _)
FirstMissedFrom(rows, i) ==
  IF i > Len(rows) THEN 0 - 1
  ELSE IF IsMissedApproachRow(rows[i]) THEN i - 1
  ELSE FirstMissedFrom(rows, i + 1)

RECURSIVE InsertBySeqno(_, _)
InsertBySeqno(sorted, r) ==
  IF sorted = << >> THEN << r >>
  ELSE IF sorted[Len(sorted)].seqno <= r.seqno THEN Append(sorted, r)
  ELSE Append(InsertBySeqno(SubSeq(sorted, 1, Len(sorted) - 1), r),
              sorted[Len(sorted)])

RECURSIVE SortBySeqnoFrom(_, _, _)
SortBySeqnoFrom(rows, i, acc) ==
  IF i > Len(rows) THEN acc
  ELSE SortBySeqnoFrom(rows, i + 1, InsertBySeqno(acc, rows[i]))

\* rows.sort((a,b) => (a.seqno || 0) - (b.seqno || 0)), a stable sort.
SortBySeqno(rows) == SortBySeqnoFrom(rows, 1, << >>)

RowsToPoints(rows) ==
  [i \in 1..Len(rows) |->
     [name |-> rows[i].waypointId, lat |-> rows[i].waypointLat,
      lon |-> rows[i].waypointLon]]

\* buildProcedurePoints(icao, approachId, transitionId).  The result is
\* [isNull |-> TRUE] for "return null" and carries the points otherwise.
buildProcedurePoints(paths, icao, approachId, transitionId) ==
  LET rows == IF transitionId = NoTransition
              THEN SelectSeq(paths, LAMBDA r:
                     r.icao = icao /\ r.id = approachId /\ r.transitionId = "")
              ELSE SelectSeq(paths, LAMBDA r:
                     r.icao = icao /\ r.id = approachId
                       /\ r.transitionId = transitionId)
      mapIdx == FirstMissedFrom(rows, 1)
      kept == IF mapIdx # 0 - 1 THEN SubSeq(rows, 1, mapIdx) ELSE rows
  IN  IF mapIdx # 0 - 1 /\ Len(kept) = 0
      THEN [isNull |-> TRUE, points |-> << >>]
      ELSE [isNull |-> FALSE, points |-> RowsToPoints(SortBySeqno(kept))]

\* Navigation data handed over by the navigation-data layer: the ILS
\* records, the waypoints offered by the direct-to input, and the approach
\* rows in the order they were loaded.
IlsRecords ==
  << [airport |-> "LIML", runway |-> "RW09", lat |-> 0, lon |-> 0,
      bearing |-> 880, declination |-> 20, gsAngle |-> 30,
      gsElevation |-> 300] >>

\* searchTarget.includes(i.runway.replace('RW', ''))
RunwayMentioned(approachId, runway) ==
  << approachId, runway >> \in { << "I09", "RW09" >> }

LoadedApproachPaths ==
  << [icao |-> "LIML", id |-> "I09", transitionId |-> "TRX", seqno |-> 10,
      waypointType |-> << "E", " ", " " >>, waypointId |-> "WPX",
      waypointLat |-> 0 - 800, waypointLon |-> 0 - 1500],
     [icao |-> "LIML", id |-> "I09", transitionId |-> "TRX", seqno |-> 20,
      waypointType |-> << "E", " ", " " >>, waypointId |-> "WPA",
      waypointLat |-> 0 - 300, waypointLon |-> 0 - 1500],
     [icao |-> "LIML", id |-> "I09", transitionId |-> "", seqno |-> 10,
      waypointType |-> << "E", " ", " " >>, waypointId |-> "WPA",
      waypointLat |-> 0 - 300, waypointLon |-> 0 - 1500],
     [icao |-> "LIML", id |-> "I09", transitionId |-> "", seqno |-> 20,
      waypointType |-> << "E", " ", "F" >>, waypointId |-> "WPB",
      waypointLat |-> 0, waypointLon |-> 0 - 1000],
     [icao |-> "LIML", id |-> "I09", transitionId |-> "", seqno |-> 25,
      waypointType |-> << "E", " ", " " >>, waypointId |-> "WPB",
      waypointLat |-> 5, waypointLon |-> 0 - 1005],
     [icao |-> "LIML", id |-> "I09", transitionId |-> "", seqno |-> 30,
      waypointType |-> << "G", " ", " " >>, waypointId |-> "RW09",
      waypointLat |-> 0, waypointLon |-> 0],
     [icao |-> "LIML", id |-> "I09", transitionId |-> "", seqno |-> 40,
      waypointType |-> << "E", " ", "M" >>, waypointId |-> "MAP09",
      waypointLat |-> 0, waypointLon |-> 50],
     [icao |-> "LIML", id |-> "I09", transitionId |-> "", seqno |-> 50,
      waypointType |-> << "E", " ", " " >>, waypointId |-> "HOLD",
      waypointLat |-> 500, waypointLon |-> 500],
     [icao |-> "LIML", id |-> "R27", transitionId |-> "", seqno |-> 10,
      waypointType |-> << "E", " ", "M" >>, waypointId |-> "MAP27",
      waypointLat |-> 0, waypointLon |-> 0 - 50],
     [icao |-> "LIML", id |-> "R27", transitionId |-> "", seqno |-> 20,
      waypointType |-> << "E", " ", " " >>, waypointId |-> "WPB",
      waypointLat |-> 0, waypointLon |-> 0 - 1000],
     [icao |-> "LIMC", id |-> "R27", transitionId |-> "", seqno |-> 10,
      waypointType |-> << "E", " ", " " >>, waypointId |-> "LC1",
      waypointLat |-> 0 - 300, waypointLon |-> 0 - 1500],
     [icao |-> "LIMC", id |-> "R27", transitionId |-> "", seqno |-> 20,
      waypointType |-> << "E", " ", " " >>, waypointId |-> "LC2",
      waypointLat |-> 0 - 300, waypointLon |-> 0 - 1300] >>

RECURSIVE FindIlsByRunway(_, _, _)
FindIlsByRunway(destination, approachId, i) ==
  IF i > Len(IlsRecords) THEN NULL
  ELSE IF IlsRecords[i].airport = destination
            /\ RunwayMentioned(approachId, IlsRecords[i].runway)
       THEN IlsRecords[i]
       ELSE FindIlsByRunway(destination, approachId, i + 1)

\* Faulty variant: the fallback takes the closest ILS of any airport.
RECURSIVE FindClosestIlsAnywhere(_, _, _, _, _)
FindClosestIlsAnywhere(destination, firstWp, i, minDist, found) ==
  IF i > Len(IlsRecords) THEN found
  ELSE LET d == calculateDistance(IlsRecords[i].lat, IlsRecords[i].lon,
                                  firstWp.lat, firstWp.lon)
       IN  IF d < minDist
           THEN FindClosestIlsAnywhere(destination, firstWp, i + 1, d,
                                       IlsRecords[i])
           ELSE FindClosestIlsAnywhere(destination, firstWp, i + 1, minDist,
                                       found)

\* Fallback: the ILS of the destination closest to the first waypoint
\* (minDist starts at 999 km).
RECURSIVE FindClosestIls(_, _, _, _, _)
FindClosestIls(destination, firstWp, i, minDist, found) ==
  IF i > Len(IlsRecords) THEN found
  ELSE LET d == calculateDistance(IlsRecords[i].lat, IlsRecords[i].lon,
                                  firstWp.lat, firstWp.lon)
       IN  IF IlsRecords[i].airport = destination /\ d < minDist
           THEN FindClosestIls(destination, firstWp, i + 1, d, IlsRecords[i])
           ELSE FindClosestIls(destination, firstWp, i + 1, minDist, found)

FindIls(destination, approachId, wps) ==
  LET byRunway == FindIlsByRunway(destination, approachId, 1)
  IN  IF byRunway = NULL /\ Len(wps) > 0
      THEN FindClosestIls(destination, wps[1], 1, 99900, NULL)
      ELSE byRunway

\* Faulty variant: the ILS flags of the previous approach are kept.
assignApproachKeepingFlags(p, paths, approachId, transitionId) ==
  LET pts == buildProcedurePoints(paths, p.destination, approachId,
                                  transitionId)
      wps == IF pts.isNull THEN << >> ELSE pts.points
  IN  [p EXCEPT
        !.assignedProcedure = [type |-> "approach", id |-> approachId,
                               transition |-> transitionId],
        !.procedureWaypoints = wps,
        !.currentWaypointIndex = 0,
        !.autopilotActive = TRUE,
        !.targetWaypoint = IF Len(wps) > 0 THEN wps[1] ELSE p.targetWaypoint,
        !.ilsData = FindIls(p.destination, approachId, wps)]

\* assignBtn click handler, for the selected plane, approach and transition.
assignApproach(p, paths, approachId, transitionId) ==
  LET pts == buildProcedurePoints(paths, p.destination, approachId,
                                  transitionId)
      wps == IF pts.isNull THEN << >> ELSE pts.points
  IN  [p EXCEPT
        !.assignedProcedure = [type |-> "approach", id |-> approachId,
                               transition |-> transitionId],
        !.procedureWaypoints = wps,
        !.currentWaypointIndex = 0,
        !.autopilotActive = TRUE,
        !.targetWaypoint = IF Len(wps) > 0 THEN wps[1] ELSE p.targetWaypoint,
        !.ilsData = FindIls(p.destination, approachId, wps),
        !.interceptingLOC = FALSE,
        !.interceptingGS = FALSE,
        !.followingILS = FALSE]

\* ------------------------------------------------------------------------
\* Aircraft.predictPath(): 60 s of look-ahead in steps of the sweep interval,
\* in display coordinates (x east, y growing downward).
\* ------------------------------------------------------------------------

\* One predicted sample: the heading after one turn step and the
\* displacement flown on it during one sample interval.
PredictStep(p, tasEstimate, currentHeading) ==
  LET h == IF currentHeading # p.targetHdg \/ IsNaN(currentHeading)
           THEN TurnToward(currentHeading, p.targetHdg, p.turnRate,
                           SWEEP_INTERVAL_MS)
           ELSE currentHeading
  IN  IF IsNaN(h) THEN [heading |-> NaN, dx |-> NaN, dy |-> NaN]
      ELSE LET gs == GroundVector(tasEstimate, h)
           IN  [heading |-> h, dx |-> MoveDam(gs.x, SWEEP_INTERVAL_MS),
                dy |-> MoveDam(gs.y, SWEEP_INTERVAL_MS)]

\* The loop "for (t = 0; t < timeToPredict; t += timeStep)".  prev is the
\* previous sample's step: a sample flown on the same heading has the same
\* displacement.
RECURSIVE PredictFrom(_, _, _, _, _, _, _)
PredictFrom(p, tasEstimate, t, currentX, currentY, prev, path) ==
  IF t >= 60000 THEN path
  ELSE LET step == IF prev.heading = p.targetHdg /\ ~IsNaN(prev.heading)
                      /\ ~IsNaN(prev.dx)
                   THEN prev
                   ELSE PredictStep(p, tasEstimate, prev.heading)
           x == IF IsNaN(step.dx) \/ IsNaN(currentX) THEN NaN
                ELSE currentX + step.dx
           y == IF IsNaN(step.dy) \/ IsNaN(currentY) THEN NaN
                ELSE currentY - step.dy
       IN  PredictFrom(p, tasEstimate, t + SWEEP_INTERVAL_MS, x, y, step,
                       Append(path, [x |-> x, y |-> y]))

\* Faulty variant: the prediction turns the live heading onto the target.
predictPathTurningLive(p) ==
  [p EXCEPT !.heading = p.targetHdg,
            !.predictedPath =
     PredictFrom(p, TasEstimate(p.indicatedAirspeed, p.altitude), 0,
                 p.displayX, p.displayY,
                 [heading |-> p.heading, dx |-> NaN, dy |-> NaN], << >>)]

predictPath(p) ==
  [p EXCEPT !.predictedPath =
     PredictFrom(p, TasEstimate(p.indicatedAirspeed, p.altitude), 0,
                 p.displayX, p.displayY,
                 [heading |-> p.heading, dx |-> NaN, dy |-> NaN], << >>)]

\* The radar-sweep refresh of one aircraft.
SweepRefresh(p) ==
  predictPath([p EXCEPT !.displayX = latLonToPixel(p.lat, p.lon).x,
                        !.displayY = latLonToPixel(p.lat, p.lon).y,
                        !.displayHdg = p.track])

\* ------------------------------------------------------------------------
\* State
\* ------------------------------------------------------------------------

VARIABLES
  planes,              \* every Aircraft object created, by identity
  aircraftList,        \* the active collection: a sequence of identities
  lastUpdateTime,      \* 0 before the first frame
  timeSinceLastSweep,  \* ms accumulated since the last radar sweep
  approachPaths,       \* approach rows as loaded from the navigation data
  updated,             \* identities update() was invoked on in the last frame
  drawn,               \* identities drawn by the last frame's draw pass
  last,                \* the last operation performed and its argument
  ticks,               \* number of frames run
  cmds                 \* number of commands issued

vars == << planes, aircraftList, lastUpdateTime, timeSinceLastSweep,
           approachPaths, updated, drawn, last, ticks, cmds >>

\* Bounds of the exploration.
MaxTicks == 4

MaxCmds == 2

\* Frames of one second explored on the roll-out.
MaxRolloutTicks == 90

\* Frame deltas (ms) offered by the scheduler.
DeltaTimes == {0, 1000, 60000}

\* ------------------------------------------------------------------------
\* gameLoop(currentTime)
\* ------------------------------------------------------------------------

\* Faulty variant: a landed aircraft is spliced out of the array while the
\* pass iterates it, so the element after it is skipped.
RECURSIVE UpdatePassSplicing(_, _, _, _)
UpdatePassSplicing(ps, list, i, dt) ==
  IF i > Len(list) THEN ps
  ELSE LET u == Update(ps[list[i]], dt)
       IN  UpdatePassSplicing([ps EXCEPT ![list[i]] = u], list,
                              IF u.landed THEN i + 2 ELSE i + 1, dt)

\* aircraftList.forEach(plane => plane.update(dt)), from position i on.
RECURSIVE UpdatePass(_, _, _, _)
UpdatePass(ps, list, i, dt) ==
  IF i > Len(list) THEN ps
  ELSE UpdatePass([ps EXCEPT ![list[i]] = Update(ps[list[i]], dt)],
                  list, i + 1, dt)

\* Faulty variant: the filter keeps every aircraft.
RemoveNone(ps, list) == list

\* aircraftList.filter(plane => !plane.landed)
RemoveLanded(ps, list) == SelectSeq(list, LAMBDA id: ~ps[id].landed)

\* The sweep pass over the active collection.
RECURSIVE SweepPass(_, _, _)
SweepPass(ps, list, i) ==
  IF i > Len(list) THEN ps
  ELSE SweepPass([ps EXCEPT ![list[i]] = SweepRefresh(ps[list[i]])],
                 list, i + 1)

\* One frame.  d is currentTime - lastUpdateTime as delivered by the
\* scheduler; on the first frame lastUpdateTime is set to currentTime first,
\* so the frame's delta is 0.  Time stamps are kept relative to the last
\* frame: lastUpdateTime is 1 once a frame has run.
GameLoopStep(d) ==
  LET deltaTimeMs == IF lastUpdateTime = 0 THEN 0 ELSE d
      afterUpdate == UpdatePass(planes, aircraftList, 1, deltaTimeMs)
      remaining == RemoveLanded(afterUpdate, aircraftList)
      sweep == timeSinceLastSweep + deltaTimeMs >= SWEEP_INTERVAL_MS
  IN  /\ lastUpdateTime' = 1
      /\ aircraftList' = remaining
      /\ timeSinceLastSweep' =
           IF sweep THEN 0 ELSE timeSinceLastSweep + deltaTimeMs
      /\ planes' = IF sweep THEN SweepPass(afterUpdate, remaining, 1)
                   ELSE afterUpdate
      /\ updated' = aircraftList
      /\ drawn' = remaining
      /\ last' = [op |-> "gameLoop", plane |-> 0, arg |-> deltaTimeMs]
      /\ ticks' = ticks + 1
      /\ UNCHANGED << approachPaths, cmds >>

\* A frame, as long as the frame budget of the exploration lasts.
GameLoop(d) == ticks < MaxTicks /\ GameLoopStep(d)

\* ------------------------------------------------------------------------
\* Commands issued by the input handlers (tag input, waypoint input,
\* procedures panel) on an aircraft they hold a reference to
\* ------------------------------------------------------------------------

HeadingInputs == {0 - 900, 2700, 4500}

SpeedInputs == {1000, 2500}

AltitudeInputs == {2000}

PidInputs ==
  { [kp |-> 40, ki |-> 1, kd |-> 0, integralLimit |-> 100000] }

\* The waypoints offered by the direct-to input.
waypoints ==
  { [name |-> "WPB", lat |-> 5, lon |-> 0 - 1005],
    [name |-> "WPB", lat |-> 0, lon |-> 0 - 1020],
    [name |-> "FIX1", lat |-> 400, lon |-> 0 - 1000] }

\* The (approach, transition) pairs the procedures panel offers.
ApproachChoices ==
  { << "I09", NoTransition >>, << "I09", "TRX" >>, << "R27", NoTransition >> }

Command(id, op, arg, q) ==
  /\ cmds < MaxCmds
  /\ planes' = [planes EXCEPT ![id] = q]
  /\ last' = [op |-> op, plane |-> id, arg |-> arg]
  /\ cmds' = cmds + 1
  /\ UNCHANGED << aircraftList, lastUpdateTime, timeSinceLastSweep,
                  approachPaths, updated, drawn, ticks >>

SetHeading(id, h) == Command(id, "setHeading", h, setHeading(planes[id], h))

SetSpeed(id, v) == Command(id, "setSpeed", v, setSpeed(planes[id], v))

SetAltitude(id, a) == Command(id, "setAltitude", a, setAltitude(planes[id], a))

SetLocPID(id, g) ==
  Command(id, "setLocPID", g,
          setLocPID(planes[id], g.kp, g.ki, g.kd, g.integralLimit))

FlyDirectTo(id, w) == Command(id, "flyDirectTo", w, flyDirectTo(planes[id], w))

AssignApproach(id, c) ==
  Command(id, "assignApproach", c,
          assignApproach(planes[id], approachPaths, c[1], c[2]))

\* ------------------------------------------------------------------------
\* Specification
\* ------------------------------------------------------------------------

\* Constructor arguments of the aircraft of a scenario.
ShortFinal ==
  [lat |-> 0, lon |-> 0 - 30, heading |-> 900, altitude |-> 340,
   speed |-> 1300, wtc |-> "M"]

Intercept ==
  [lat |-> 60, lon |-> 0 - 1200, heading |-> 1100, altitude |-> 2300,
   speed |-> 2000, wtc |-> "M"]

Downwind ==
  [lat |-> 0 - 300, lon |-> 0 - 1510, heading |-> 900, altitude |-> 4000,
   speed |-> 2800, wtc |-> "H"]

NewAircraft(a) ==
  Aircraft(a.lat, a.lon, a.heading, a.altitude, a.speed, "LIML", a.wtc,
           "cruise")

\* Scenario fleets: the aircraft startSimulation constructs, placed where
\* the approach to runway 09 is within reach.
Fleets == { << ShortFinal >>, << Intercept >>, << Downwind >> }

InitFleet(fleet) ==
  /\ planes = [i \in 1..Len(fleet) |-> NewAircraft(fleet[i])]
  /\ aircraftList = [i \in 1..Len(fleet) |-> i]
  /\ lastUpdateTime = 0
  /\ timeSinceLastSweep = 0
  /\ approachPaths = LoadedApproachPaths
  /\ updated = << >>
  /\ drawn = << >>
  /\ last = [op |-> "init", plane |-> 0, arg |-> 0]
  /\ ticks = 0
  /\ cmds = 0

Init == \E fleet \in Fleets : InitFleet(fleet)

Frame == \E d \in DeltaTimes : GameLoop(d)

Next ==
  \/ Frame
  \/ \E id \in DOMAIN planes :
       \/ \E h \in HeadingInputs : SetHeading(id, h)
       \/ \E v \in SpeedInputs : SetSpeed(id, v)
       \/ \E a \in AltitudeInputs : SetAltitude(id, a)
       \/ \E g \in PidInputs : SetLocPID(id, g)
       \/ \E w \in waypoints : FlyDirectTo(id, w)
       \/ \E c \in ApproachChoices : AssignApproach(id, c)

Spec == Init /\ [][Next]_vars

\* Two aircraft in the active collection, the first on short final: the
\* frames and the approach assignments that bring the first one down while
\* the second is still flying.
InitPair == InitFleet(<< ShortFinal, Downwind >>)

AssignIls == \E id \in DOMAIN planes : AssignApproach(id, << "I09", NoTransition >>)

NextPair == Frame \/ AssignIls

SpecPair == InitPair /\ [][NextPair]_vars

\* One aircraft bound for LIMC, an airport with approach rows but without
\* any ILS record.
Regional ==
  Aircraft(0 - 300, 0 - 1510, 900, 4000, 2200, "LIMC", "M", "cruise")

InitNoIls ==
  /\ planes = << Regional >>
  /\ aircraftList = << 1 >>
  /\ lastUpdateTime = 0
  /\ timeSinceLastSweep = 0
  /\ approachPaths = LoadedApproachPaths
  /\ updated = << >>
  /\ drawn = << >>
  /\ last = [op |-> "init", plane |-> 0, arg |-> 0]
  /\ ticks = 0
  /\ cmds = 0

AssignAny ==
  \E id \in DOMAIN planes : \E c \in ApproachChoices : AssignApproach(id, c)

NextNoIls == Frame \/ AssignAny

SpecNoIls == InitNoIls /\ [][NextNoIls]_vars

\* Manual flight: one aircraft constructed at (heading, 4000 ft, 250 kn)
\* and given its targets by setHeading, setAltitude and setSpeed.
KinHeadings == {0, 10, 450, 900, 1800, 2700, 3500, 3590}

KinAltitudes == {4000, 4005, 4030, 4100, 2000, 10000}

KinSpeeds == {2500, 2503, 2520, 2560, 1800, 1200}

KinInputs ==
  { [heading |-> h, targetHdg |-> t, targetAlt |-> 4000, targetSpd |-> 2500] :
      h \in KinHeadings, t \in KinHeadings }
  \cup
  { [heading |-> 0, targetHdg |-> 10, targetAlt |-> a, targetSpd |-> v] :
      a \in KinAltitudes, v \in KinSpeeds }

KinAircraft(c) ==
  setSpeed(setAltitude(setHeading(
      Aircraft(0 - 300, 0 - 1510, c.heading, 4000, 2500, "LIML", "M",
               "cruise"),
      c.targetHdg), c.targetAlt), c.targetSpd)

InitKinematics ==
  \E c \in KinInputs :
    /\ planes = << KinAircraft(c) >>
    /\ aircraftList = << 1 >>
    /\ lastUpdateTime = 0
    /\ timeSinceLastSweep = 0
    /\ approachPaths = LoadedApproachPaths
    /\ updated = << >>
    /\ drawn = << >>
    /\ last = [op |-> "init", plane |-> 0, arg |-> 0]
    /\ ticks = 0
    /\ cmds = 0

NextKinematics == Frame

SpecKinematics == InitKinematics /\ [][NextKinematics]_vars

\* Slow flight in the wind: one aircraft constructed at a low speed, on a
\* heading into, across or along the wind.
WindInputs ==
  { [heading |-> h, altitude |-> a, speed |-> v] :
      h \in {2700, 900, 0}, a \in {0, 12500}, v \in {400, 500, 1000} }

InitWind ==
  \E c \in WindInputs :
    /\ planes = << Aircraft(0 - 300, 0 - 1510, c.heading, c.altitude,
                            c.speed, "LIML", "M", "cruise") >>
    /\ aircraftList = << 1 >>
    /\ lastUpdateTime = 0
    /\ timeSinceLastSweep = 0
    /\ approachPaths = LoadedApproachPaths
    /\ updated = << >>
    /\ drawn = << >>
    /\ last = [op |-> "init", plane |-> 0, arg |-> 0]
    /\ ticks = 0
    /\ cmds = 0

NextWind == Frame

SpecWind == InitWind /\ [][NextWind]_vars

\* The approach rows with row i supplied first: the navigation data with
\* one row out of sequence order.
SuppliedFirst(paths, i) ==
  << paths[i] >> \o SubSeq(paths, 1, i - 1) \o SubSeq(paths, i + 1, Len(paths))

ApproachPathOrderings ==
  { LoadedApproachPaths }
    \cup { SuppliedFirst(LoadedApproachPaths, i) :
             i \in 1..Len(LoadedApproachPaths) }

\* One aircraft and the approach rows in any of the supplied orders.
InitProcedures ==
  \E paths \in ApproachPathOrderings :
    /\ planes = << NewAircraft(Downwind) >>
    /\ aircraftList = << 1 >>
    /\ lastUpdateTime = 0
    /\ timeSinceLastSweep = 0
    /\ approachPaths = paths
    /\ updated = << >>
    /\ drawn = << >>
    /\ last = [op |-> "init", plane |-> 0, arg |-> 0]
    /\ ticks = 0
    /\ cmds = 0

NextProcedures == Frame \/ AssignAny

SpecProcedures == InitProcedures /\ [][NextProcedures]_vars

\* Roll-out: an aircraft on short final with the ILS approach to runway 09
\* assigned after the first frame, then frames of one second and no
\* further command.
RolloutSpeeds == {1300, 1400}

InitRollout ==
  \E v \in RolloutSpeeds :
    /\ planes = << assignApproach(
                     NewAircraft([ShortFinal EXCEPT !.speed = v]),
                     LoadedApproachPaths, "I09", NoTransition) >>
    /\ aircraftList = << 1 >>
    /\ lastUpdateTime = 1
    /\ timeSinceLastSweep = 0
    /\ approachPaths = LoadedApproachPaths
    /\ updated = << >>
    /\ drawn = << >>
    /\ last = [op |-> "assignApproach", plane |-> 1,
               arg |-> << "I09", NoTransition >>]
    /\ ticks = 0
    /\ cmds = 0

RolloutFrame == ticks < MaxRolloutTicks /\ GameLoopStep(1000)

NextRollout == RolloutFrame

SpecRollout == InitRollout /\ [][NextRollout]_vars

\* Deceleration after the landing trigger without a glideslope capture:
\* a heavy aircraft crosses the runway-09 threshold northbound or
\* southbound at 125 kn with approach I09 assigned and is then updated
\* once a second with no further command.
SlowInputs ==
  { [ShortFinal EXCEPT !.lon = 0 - 20, !.heading = h, !.speed = 1250,
                       !.wtc = "H"] : h \in {0, 1800} }

InitSlow ==
  \E a \in SlowInputs :
    /\ planes = << assignApproach(NewAircraft(a), LoadedApproachPaths,
                                  "I09", NoTransition) >>
    /\ aircraftList = << 1 >>
    /\ lastUpdateTime = 1
    /\ timeSinceLastSweep = 0
    /\ approachPaths = LoadedApproachPaths
    /\ updated = << >>
    /\ drawn = << >>
    /\ last = [op |-> "assignApproach", plane |-> 1,
               arg |-> << "I09", NoTransition >>]
    /\ ticks = 0
    /\ cmds = 0

NextSlow == RolloutFrame

SpecSlow == InitSlow /\ [][NextSlow]_vars

\* ------------------------------------------------------------------------
\* Properties
\* ------------------------------------------------------------------------

Range(seq) == { seq[i] : i \in 1..Len(seq) }

\* C1: one steering source at a time -- no aircraft has autopilotActive and
\* interceptingLOC both true.  flyDirectTo engages the autopilot without
\* looking at the ILS flags, so this fails once the localizer is captured.
C1_ExclusiveSteering ==
  \A id \in DOMAIN planes :
    ~(planes[id].autopilotActive /\ planes[id].interceptingLOC)

\* C2: the ILS flags are ordered -- interceptingGS implies interceptingLOC,
\* and followingILS implies interceptingGS, in every state.
C2_IlsFlagOrder ==
  \A id \in DOMAIN planes :
    /\ planes[id].interceptingGS => planes[id].interceptingLOC
    /\ planes[id].followingILS => planes[id].interceptingGS

\* An aircraft established on the glideslope: all three flags are set.
C2_Witness ==
  \E id \in DOMAIN planes :
    /\ planes[id].followingILS
    /\ planes[id].interceptingGS
    /\ planes[id].interceptingLOC
    /\ last.op = "gameLoop"

\* C3: landed is terminal -- a landed aircraft is not in the active
\* collection, and from then on landed stays true, the aircraft stays out of
\* the collection, update() is not invoked on it and a frame leaves the
\* object as it is.
C3_LandedTerminal ==
  /\ [](\A id \in DOMAIN planes :
          planes[id].landed => id \notin Range(aircraftList))
  /\ [][\A id \in DOMAIN planes :
          planes[id].landed =>
            /\ planes'[id].landed
            /\ id \notin Range(aircraftList')
            /\ (last'.op = "gameLoop" =>
                  id \notin Range(updated') /\ planes'[id] = planes[id])]_vars

\* A frame of one second or more has run after the only aircraft landed:
\* nothing was updated, and the landed aircraft is still decelerating on
\* paper (its speed differs from its target), so an update would show.
C3_Witness ==
  /\ last.op = "gameLoop" /\ last.arg > 0
  /\ updated = << >>
  /\ \E id \in DOMAIN planes :
       /\ planes[id].landed
       /\ planes[id].indicatedAirspeed # planes[id].targetSpd

\* C4 as stated: in the frame in which an aircraft lands it is still a
\* member of the active collection and is still drawn.
C4_DeferredRemoval ==
  [][\A id \in DOMAIN planes :
       (~planes[id].landed /\ planes'[id].landed) =>
         (id \in Range(aircraftList') /\ id \in Range(drawn'))]_vars

\* C4 amended: a frame invokes update() once on every member of the
\* collection as it was when the frame began (landing aircraft included,
\* and the aircraft after it), then removes exactly the landed aircraft,
\* in the same frame, before the sweep and the draw pass.
C4_RemovalAfterUpdatePass ==
  [][last'.op = "gameLoop" =>
       /\ updated' = aircraftList
       /\ \A id \in Range(aircraftList) :
            LET u == Update(planes[id], last'.arg)
            IN  planes'[id] = u \/ planes'[id] = SweepRefresh(u)
       /\ aircraftList' =
            SelectSeq(aircraftList, LAMBDA id : ~planes'[id].landed)
       /\ drawn' = aircraftList']_vars

\* The frame in which the first of two aircraft landed: update() was invoked
\* on both, and only the second is left in the collection and drawn.
C4_Witness ==
  /\ last.op = "gameLoop"
  /\ updated = << 1, 2 >>
  /\ planes[1].landed
  /\ aircraftList = << 2 >>
  /\ drawn = << 2 >>

\* C5: heading, track and targetHdg of every aircraft lie in [0, 360) in
\* every state.  A frame of zero seconds on a captured localizer divides
\* 0 by 0 in the PID derivative and stores NaN in targetHdg, which the
\* heading and track computations then inherit.
C5_HeadingsInRange ==
  \A id \in DOMAIN planes :
    /\ planes[id].heading \in 0..3599
    /\ planes[id].track \in 0..3599
    /\ planes[id].targetHdg \in 0..3599

\* C6 as stated: targetSpd is at least 120 kn in every state.
C6_TargetSpeedFloor ==
  \A id \in DOMAIN planes : planes[id].targetSpd >= 1200

\* C6 amended: targetSpd is at least 120 kn, except that the landing
\* trigger sets it to exactly 0 (and the phase to "landing").
C6_TargetSpeedFloorOrRollout ==
  \A id \in DOMAIN planes :
    \/ planes[id].targetSpd >= 1200
    \/ planes[id].targetSpd = 0 /\ planes[id].phase = "landing"

\* setSpeed asked for less than 120 kn on an aircraft the landing trigger
\* has already slowed down: the target is back at the 120 kn floor.
C6_Witness ==
  /\ last.op = "setSpeed" /\ last.arg < 1200
  /\ planes[last.plane].phase = "landing"
  /\ planes[last.plane].indicatedAirspeed < 1200
  /\ planes[last.plane].targetSpd = 1200

\* C7: setHeading(h) sets targetHdg to h mod 360, disengages the autopilot
\* and clears targetWaypoint; no other field of the aircraft, no other
\* aircraft and nothing of the simulation changes.
C7_SetHeadingEffect ==
  [][last'.op = "setHeading" =>
       /\ planes' = [planes EXCEPT ![last'.plane] =
                       [planes[last'.plane] EXCEPT
                          !.targetHdg = last'.arg % 3600,
                          !.autopilotActive = FALSE,
                          !.targetWaypoint = NULL]]
       /\ UNCHANGED << aircraftList, lastUpdateTime, timeSinceLastSweep,
                       approachPaths, updated, drawn >>]_vars

\* setHeading(-90) issued right after an approach assignment, i.e. on an
\* aircraft whose autopilot was engaged on the first procedure waypoint.
C7_Witness ==
  /\ last.op = "setHeading" /\ last.arg = 0 - 900
  /\ ticks = 0
  /\ Len(planes[last.plane].procedureWaypoints) > 0
  /\ planes[last.plane].targetHdg = 2700
  /\ ~planes[last.plane].autopilotActive
  /\ planes[last.plane].targetWaypoint = NULL

\* C8: flyDirectTo(w) engages the autopilot on w; currentWaypointIndex
\* becomes the (0-based) position of the first procedure waypoint with w's
\* name whose lat and lon are each within 0.001 degree (11 dam) of w's, and
\* -1 if there is none.
C8_FlyDirectToEffect ==
  [][last'.op = "flyDirectTo" =>
       LET w == last'.arg
           wps == planes[last'.plane].procedureWaypoints
           matching == { i \in 1..Len(wps) :
                           /\ wps[i].name = w.name
                           /\ wps[i].lat - w.lat \in (0 - 11)..11
                           /\ wps[i].lon - w.lon \in (0 - 11)..11 }
           after == planes'[last'.plane]
       IN  /\ after.autopilotActive
           /\ after.targetWaypoint = w
           /\ after.currentWaypointIndex =
                IF matching = {} THEN 0 - 1
                ELSE (CHOOSE i \in matching : \A j \in matching : i <= j) - 1]_vars

\* flyDirectTo on a waypoint that two entries of the procedure match: the
\* index is that of the first of them (the second procedure waypoint).
C8_Witness ==
  /\ last.op = "flyDirectTo"
  /\ LET wps == planes[last.plane].procedureWaypoints
     IN  /\ Len(wps) >= 3
         /\ WaypointMatches(wps[2], last.arg)
         /\ WaypointMatches(wps[3], last.arg)
         /\ ~WaypointMatches(wps[1], last.arg)
  /\ planes[last.plane].currentWaypointIndex = 1
  /\ planes[last.plane].autopilotActive
  /\ planes[last.plane].targetWaypoint = last.arg

\* The aircraft as update(dt) has it on entry to the procedure-following
\* block.
BeforeProcedureFollowing(p, dt) ==
  IlsLogic(SpeedLogic(AltitudeLogic(HeadingLogic(DirectToHeading(p), dt),
                                    dt), dt), dt)

\* C9: in a frame that finds an aircraft in procedure-following (autopilot
\* engaged on index i >= 0 of a non-empty sequence, not on the ILS): if the
\* distance to waypoint i is below the capture radius, the index becomes
\* i + 1 and targetWaypoint the waypoint there, or, if there is none, the
\* autopilot disengages and targetWaypoint becomes null; otherwise index,
\* targetWaypoint and engagement are as before.
C9_WaypointSequencing ==
  [][last'.op = "gameLoop" =>
       \A id \in Range(aircraftList) :
         LET q == BeforeProcedureFollowing(planes[id], last'.arg)
             wps == q.procedureWaypoints
             i == q.currentWaypointIndex
             after == planes'[id]
         IN  (q.autopilotActive /\ ~q.followingILS /\ i >= 0 /\ i < Len(wps)) =>
               LET dist == calculateDistance(q.lat, q.lon, wps[i + 1].lat,
                                             wps[i + 1].lon)
                   radius == CaptureRadius(q, wps[i + 1],
                               IF i + 1 < Len(wps) THEN wps[i + 2] ELSE NULL)
               IN  IF ~IsNaN(dist) /\ ~IsNaN(radius) /\ dist < radius
                   THEN /\ after.currentWaypointIndex = i + 1
                        /\ IF i + 1 < Len(wps)
                           THEN /\ after.targetWaypoint = wps[i + 2]
                                /\ after.autopilotActive
                           ELSE /\ after.targetWaypoint = NULL
                                /\ ~after.autopilotActive
                   ELSE /\ after.currentWaypointIndex = i
                        /\ after.targetWaypoint = planes[id].targetWaypoint
                        /\ after.autopilotActive]_vars

\* A procedure flown to its end: the frame that captured the last waypoint
\* left the index past the sequence, the autopilot off and no target.
C9_Witness ==
  /\ last.op = "gameLoop"
  /\ \E id \in DOMAIN planes :
       /\ Len(planes[id].procedureWaypoints) >= 2
       /\ planes[id].currentWaypointIndex = Len(planes[id].procedureWaypoints)
       /\ ~planes[id].autopilotActive
       /\ planes[id].targetWaypoint = NULL

\* C10: with an approach and an ILS assigned, a frame captures the
\* localizer iff it was not captured, the threshold is less than 30 km
\* away, |cross-track error| < 1.0 km and the track is within 30 degrees of
\* locBearing; the capturing frame leaves the autopilot off, lastError at
\* the current error and steers with a zero derivative term, i.e. to
\* locBearing + clamp(kp*error + ki*integral).  In a frame of zero seconds
\* the derivative is 0/0 and the frame steers to NaN instead.
C10_LocalizerCapture ==
  [][last'.op = "gameLoop" =>
       \A id \in Range(aircraftList) :
         LET p == planes[id]
             after == planes'[id]
             dt == last'.arg
         IN  IlsActive(p) =>
               LET dist == DistToThreshold(p)
                   xtk == XtkError(p)
                   cond == /\ ~p.interceptingLOC
                           /\ ~IsNaN(dist) /\ dist < 3000
                           /\ Abs(xtk) < 100
                           /\ ~IsNaN(p.track)
                           /\ TrackOffset(p.track, LocBearing(p.ilsData)) < 300
                   integral == Clamp(xtk * dt, p.locPID.integralLimit)
                   output == Clamp(RDiv(p.locPID.kp * xtk, 10)
                                     + RDiv(p.locPID.ki * integral, 10000), 300)
               IN  /\ (~p.interceptingLOC /\ after.interceptingLOC) <=> cond
                   /\ cond =>
                        /\ ~after.autopilotActive
                        /\ after.locPID.lastError = xtk
                        /\ after.locPID.integral = integral
                        /\ after.targetHdg =
                             (LocBearing(p.ilsData) + output) % 3600]_vars

\* The aircraft as update(dt) has it on entry to the ILS block.
BeforeIls(p, dt) ==
  SpeedLogic(AltitudeLogic(HeadingLogic(DirectToHeading(p), dt), dt), dt)

\* C11: a frame captures the glideslope exactly when, in that update, the
\* localizer is captured (before or in this very update), the glideslope
\* was not, and the altitude is at or below the beam and less than 100 ft
\* from it; the capture sets interceptingGS and followingILS together.  An
\* aircraft above the beam, or without ILS, does not capture.
C11_GlideslopeCapture ==
  [][last'.op = "gameLoop" =>
       \A id \in Range(aircraftList) :
         LET p == planes[id]
             after == planes'[id]
             captured == ~p.interceptingGS /\ after.interceptingGS
         IN  IF IlsActive(p)
             THEN LET alt == BeforeIls(p, last'.arg).altitude
                      beam == BeamAlt(p.ilsData, DistToThreshold(p))
                      below == /\ ~IsNaN(alt) /\ ~IsNaN(beam)
                               /\ alt <= beam /\ beam - alt < 100
                  IN  /\ captured <=>
                           (after.interceptingLOC /\ ~p.interceptingGS /\ below)
                      /\ captured => after.followingILS
                      /\ (~p.followingILS /\ after.followingILS) => captured
             ELSE ~captured /\ after.followingILS = p.followingILS]_vars

\* The first frame (dt = 0, nothing has moved) captured the glideslope: the
\* aircraft sits at or below the beam, less than 100 ft from it.
C11_Witness ==
  /\ last.op = "gameLoop" /\ ticks = 1
  /\ \E id \in DOMAIN planes :
       /\ planes[id].interceptingLOC
       /\ planes[id].interceptingGS /\ planes[id].followingILS
       /\ ~IsNaN(planes[id].lat)
       /\ planes[id].altitude
            <= BeamAlt(planes[id].ilsData, DistToThreshold(planes[id]))
       /\ BeamAlt(planes[id].ilsData, DistToThreshold(planes[id]))
            - planes[id].altitude < 100

\* C12: the localizer PID integral of every aircraft lies within
\* [-integralLimit, +integralLimit] in every state.  Once a frame of zero
\* seconds has put NaN into targetHdg, heading and position follow, the
\* cross-track error is NaN and so is the integral, which the clamp
\* Math.max(-limit, Math.min(limit, NaN)) lets through.
C12_IntegralBounded ==
  \A id \in DOMAIN planes :
    /\ planes[id].locPID.integral >= 0 - planes[id].locPID.integralLimit
    /\ planes[id].locPID.integral <= planes[id].locPID.integralLimit

\* C13: every frame that leaves an aircraft on a captured localizer sets
\* targetHdg to (locBearing + correction) mod 360, with correction =
\* kp*error + ki*integral + kd*derivative clamped to [-30, +30] degrees, so
\* targetHdg is a heading at most 30 degrees from locBearing.  In a frame of
\* zero seconds the derivative is 0/0 and targetHdg is NaN.
C13_LateralGuidance ==
  [][last'.op = "gameLoop" =>
       \A id \in Range(aircraftList) :
         LET p == planes[id]
             after == planes'[id]
             dt == last'.arg
         IN  (IlsActive(p) /\ after.interceptingLOC) =>
               LET xtk == XtkError(p)
                   fresh == ~p.interceptingLOC
                   lastError == IF fresh THEN xtk ELSE p.locPID.lastError
                   integral == Clamp((IF fresh THEN 0 ELSE p.locPID.integral)
                                       + xtk * dt, p.locPID.integralLimit)
                   locBearing == LocBearing(p.ilsData)
               IN  /\ after.targetHdg \in 0..3599
                   /\ Abs(TurnDiff(after.targetHdg, locBearing)) <= 300
                   /\ dt > 0 =>
                        after.targetHdg =
                          (locBearing
                             + Clamp(RDiv(p.locPID.kp * xtk, 10)
                                       + RDiv(p.locPID.ki * integral, 10000)
                                       + RDiv(p.locPID.kd * (xtk - lastError)
                                                * 100, dt), 300)) % 3600]_vars

\* C14: for an aircraft with an approach and an ILS record, a frame in which
\* the threshold is less than 0.25 km away, or the glideslope is captured
\* and the altitude is below gsElevation + 50 ft, leaves phase = "landing"
\* and targetSpd = 0; landed becomes true exactly in a frame where this
\* trigger holds and indicatedAirspeed is below 30 kn.  Without an ILS
\* record no frame lands an aircraft.
C14_LandingTrigger ==
  [][last'.op = "gameLoop" =>
       \A id \in Range(aircraftList) :
         LET p == planes[id]
             after == planes'[id]
         IN  IF IlsActive(p)
             THEN LET q == BeforeIls(p, last'.arg)
                      dist == DistToThreshold(p)
                      trigger ==
                        \/ ~IsNaN(dist) /\ dist < 25
                        \/ /\ after.interceptingGS
                           /\ ~IsNaN(q.altitude)
                           /\ q.altitude < p.ilsData.gsElevation + 50
                  IN  /\ trigger =>
                           after.phase = "landing" /\ after.targetSpd = 0
                      /\ after.landed <=>
                           (trigger /\ q.indicatedAirspeed < 300)
             ELSE ~after.landed]_vars

\* The frame that landed an aircraft: it was updated in this frame, is in
\* the landing phase with target speed 0 and rolls slower than 30 kn.
C14_Witness ==
  /\ last.op = "gameLoop"
  /\ \E id \in Range(updated) :
       /\ planes[id].landed
       /\ planes[id].phase = "landing"
       /\ planes[id].targetSpd = 0
       /\ planes[id].indicatedAirspeed < 300

\* C15: the ILS states are passed in the order enroute, localizer captured,
\* glideslope captured, landed -- a frame puts an aircraft into the landing
\* phase, or lands it, only with its localizer and glideslope captured.
\* The trigger's first disjunct (threshold closer than 0.25 km) asks for
\* neither capture.
C15_IlsStateOrder ==
  [][last'.op = "gameLoop" =>
       \A id \in Range(aircraftList) :
         LET p == planes[id]
             after == planes'[id]
         IN  ((p.phase # "landing" /\ after.phase = "landing")
                \/ (~p.landed /\ after.landed)) =>
               (after.interceptingLOC /\ after.interceptingGS)]_vars

\* C16: an aircraft whose assigned approach has no ILS record (its
\* destination has none) keeps ilsData null, and through every later frame
\* interceptingLOC, interceptingGS, followingILS and landed stay false,
\* phase and targetSpd stay as they were, and the autopilot stays engaged
\* on the procedure until its last waypoint is captured.
C16_NoIlsNoGuidance ==
  \A id \in DOMAIN planes :
    planes[id].assignedProcedure # NULL =>
      /\ planes[id].ilsData = NULL
      /\ ~planes[id].interceptingLOC
      /\ ~planes[id].interceptingGS
      /\ ~planes[id].followingILS
      /\ ~planes[id].landed
      /\ planes[id].phase = Regional.phase
      /\ planes[id].targetSpd = Regional.targetSpd
      /\ id \in Range(aircraftList)
      /\ \/ planes[id].autopilotActive
         \/ /\ Len(planes[id].procedureWaypoints) > 0
            /\ planes[id].currentWaypointIndex
                 = Len(planes[id].procedureWaypoints)

\* Frames have flown the aircraft along its ILS-less procedure: the first
\* waypoint is behind it and the autopilot steers to the second.
C16_Witness ==
  /\ last.op = "gameLoop" /\ last.arg > 0
  /\ \E id \in DOMAIN planes :
       /\ planes[id].assignedProcedure # NULL
       /\ planes[id].ilsData = NULL
       /\ planes[id].autopilotActive
       /\ planes[id].currentWaypointIndex = 1
       /\ planes[id].targetWaypoint = planes[id].procedureWaypoints[2]
       /\ planes[id].lon # Regional.lon

\* C17: a frame of zero seconds is a no-op for every aircraft it updates:
\* heading, altitude, indicatedAirspeed, targetHdg, position and the PID
\* state are left as they were and none of them is NaN or infinite.  On a
\* captured localizer the derivative term divides by the zero dt.
C17_ZeroDtNoOp ==
  [][(last'.op = "gameLoop" /\ last'.arg = 0) =>
       \A id \in Range(aircraftList) :
         LET p == planes[id]
             after == planes'[id]
         IN  /\ after.heading = p.heading
             /\ after.altitude = p.altitude
             /\ after.indicatedAirspeed = p.indicatedAirspeed
             /\ after.targetHdg = p.targetHdg
             /\ after.lat = p.lat
             /\ after.lon = p.lon
             /\ after.locPID = p.locPID
             /\ ~IsNaN(after.heading) /\ ~IsNaN(after.altitude)
             /\ ~IsNaN(after.indicatedAirspeed) /\ ~IsNaN(after.targetHdg)
             /\ ~IsNaN(after.lat) /\ ~IsNaN(after.lon)
             /\ ~IsNaN(after.locPID.integral)
             /\ ~IsNaN(after.locPID.lastError)]_vars

\* C18: in manual flight with fixed targets every frame moves heading,
\* altitude and indicatedAirspeed toward their targets without crossing
\* them: the remaining difference keeps its sign and does not grow, shrinks
\* when time passes, is zero once the step of the frame covers it, and
\* stays zero afterwards; with altitude already at targetAlt the frame
\* leaves altitude as it is and sets verticalSpeed to 0.
C18_ConvergeToTargets ==
  [][last'.op = "gameLoop" =>
       \A id \in Range(aircraftList) :
         LET p == planes[id]
             after == planes'[id]
             dt == last'.arg
             hd == TurnDiff(p.targetHdg, p.heading)
             hd2 == TurnDiff(after.targetHdg, after.heading)
             ad == p.targetAlt - p.altitude
             ad2 == after.targetAlt - after.altitude
             sd == p.targetSpd - p.indicatedAirspeed
             sd2 == after.targetSpd - after.indicatedAirspeed
             altRate == IF ad > 0 THEN p.climbRate ELSE p.descentRate
             spdRate == IF sd > 0 THEN p.accelerationRate
                        ELSE p.decelerationRate
         IN  (~p.autopilotActive /\ ~IlsActive(p)) =>
               /\ after.targetHdg = p.targetHdg
               /\ after.targetAlt = p.targetAlt
               /\ after.targetSpd = p.targetSpd
               /\ after.heading \in 0..3599
               /\ hd2 = 0 \/ Sign(hd2) = Sign(hd)
               /\ Abs(hd2) <= Abs(hd)
               /\ (dt > 0 /\ hd # 0) => Abs(hd2) < Abs(hd)
               /\ RDiv(p.turnRate * dt, 1000) >= Abs(hd) =>
                    after.heading = p.targetHdg
               /\ ad2 = 0 \/ Sign(ad2) = Sign(ad)
               /\ Abs(ad2) <= Abs(ad)
               /\ (dt > 0 /\ ad # 0) => Abs(ad2) < Abs(ad)
               /\ RDiv(altRate * dt, 60000) >= Abs(ad) =>
                    after.altitude = p.targetAlt
               /\ ad = 0 =>
                    (after.altitude = p.altitude /\ after.verticalSpeed = 0)
               /\ sd2 = 0 \/ Sign(sd2) = Sign(sd)
               /\ Abs(sd2) <= Abs(sd)
               /\ (dt > 0 /\ sd # 0) => Abs(sd2) < Abs(sd)
               /\ RDiv(spdRate * dt, 1000) >= Abs(sd) =>
                    after.indicatedAirspeed = p.targetSpd]_vars

\* A frame has just brought heading, altitude and speed onto targets they
\* did not start on: the display heading is still the old one, the climb
\* rate of the arriving frame is still shown, the speed is off the initial
\* 250 kn.
C18_Witness ==
  /\ last.op = "gameLoop" /\ last.arg > 0
  /\ \E id \in Range(aircraftList) :
       /\ ~planes[id].autopilotActive /\ planes[id].assignedProcedure = NULL
       /\ planes[id].heading = planes[id].targetHdg
       /\ planes[id].displayHdg # planes[id].heading
       /\ planes[id].altitude = planes[id].targetAlt
       /\ planes[id].verticalSpeed = planes[id].climbRate
       /\ planes[id].indicatedAirspeed = planes[id].targetSpd
       /\ planes[id].targetSpd # 2500

\* The heading a frame of dt ms must leave when the turn goes right
\* (clockwise, heading increasing) or left, over an arc of the given length.
C19_Turned(p, dt, arc, right) ==
  LET turnStep == RDiv(p.turnRate * dt, 1000)
  IN  IF arc < turnStep THEN p.targetHdg
      ELSE IF right THEN (p.heading + turnStep) % 3600
      ELSE (p.heading - turnStep + 3600) % 3600

\* C19 as stated: the heading step turns along the shorter arc, and when
\* heading and targetHdg are exactly 180 degrees apart the turn is always
\* to the right.  The code turns left in that case when targetHdg is the
\* smaller value.
C19_TieAlwaysRight ==
  [][last'.op = "gameLoop" =>
       \A id \in Range(aircraftList) :
         LET p == planes[id]
             after == planes'[id]
             cw == (p.targetHdg - p.heading + 3600) % 3600
         IN  (~p.autopilotActive /\ ~IlsActive(p)) =>
               after.heading =
                 C19_Turned(p, last'.arg, IF cw <= 1800 THEN cw
                                          ELSE 3600 - cw, cw <= 1800)]_vars

\* C19: the heading step turns along the shorter arc: right when the
\* clockwise arc from heading to targetHdg is under 180 degrees, left when
\* it is over 180 degrees.  At exactly 180 degrees the signed difference is
\* +180 when targetHdg is the larger value and -180 when it is the smaller
\* one, so the turn is to the right from 090 to 270 (093 after one second)
\* and to the left from 270 to 090 (267).
C19_ShorterArc ==
  [][last'.op = "gameLoop" =>
       \A id \in Range(aircraftList) :
         LET p == planes[id]
             after == planes'[id]
             cw == (p.targetHdg - p.heading + 3600) % 3600
             right == cw < 1800 \/ (cw = 1800 /\ p.targetHdg > p.heading)
         IN  (~p.autopilotActive /\ ~IlsActive(p)) =>
               after.heading =
                 C19_Turned(p, last'.arg, IF cw <= 1800 THEN cw
                                          ELSE 3600 - cw, right)]_vars

\* One second into the turn from 270 to 090: the heading is 267.
C19_Witness ==
  /\ last.op = "gameLoop" /\ last.arg = 1000
  /\ \E id \in Range(aircraftList) :
       /\ ~planes[id].autopilotActive
       /\ planes[id].targetHdg = 900
       /\ planes[id].heading = 2670

\* C20: a frame that finds an aircraft with followingILS true changes its
\* altitude by exactly verticalSpeed / 60 * dt, verticalSpeed being the
\* value glideslope guidance left in the previous update (a NaN altitude or
\* verticalSpeed gives a NaN altitude), without snapping to targetAlt, and
\* leaves the verticalSpeed that guidance computes from the new altitude;
\* the result is the same whatever targetAlt is, and setAltitude changes
\* neither altitude nor verticalSpeed.
C20_IlsVerticalIntegration ==
  [][/\ last'.op = "gameLoop" =>
          \A id \in Range(aircraftList) :
            LET p == planes[id]
                after == planes'[id]
                dt == last'.arg
            IN  p.followingILS =>
                  /\ IlsActive(p) /\ p.interceptingGS
                  /\ after.altitude =
                       IF IsNaN(p.altitude) \/ IsNaN(p.verticalSpeed) THEN NaN
                       ELSE p.altitude
                              + RDiv(p.verticalSpeed * RDiv(dt, 100), 600)
                  /\ after.verticalSpeed =
                       VerticalGuidance([p EXCEPT !.altitude = after.altitude],
                                        DistToThreshold(p)).verticalSpeed
                  /\ \A a \in AltitudeInputs \cup {after.altitude + 5} :
                       LET q == Update(setAltitude(p, a), dt)
                       IN  /\ q.altitude = after.altitude
                           /\ q.verticalSpeed = after.verticalSpeed
     /\ last'.op = "setAltitude" =>
          LET id == last'.plane
          IN  planes[id].followingILS =>
                /\ planes'[id].altitude = planes[id].altitude
                /\ planes'[id].verticalSpeed = planes[id].verticalSpeed]_vars

\* A frame has integrated the altitude of an aircraft on the glideslope to
\* within 10 ft of targetAlt without snapping onto it.
C20_Witness ==
  /\ last.op = "gameLoop" /\ last.arg > 0
  /\ \E id \in Range(aircraftList) :
       /\ planes[id].followingILS
       /\ ~IsNaN(planes[id].altitude) /\ ~IsNaN(planes[id].verticalSpeed)
       /\ planes[id].altitude # planes[id].targetAlt
       /\ Abs(planes[id].targetAlt - planes[id].altitude) <= 10

\* C21: assigning an approach leaves procedureWaypoints equal to the built
\* sequence (empty when none is built), currentWaypointIndex 0,
\* autopilotActive true, targetWaypoint the first procedure waypoint (left
\* as it was when the sequence is empty), ilsData the resolved record or
\* null, and interceptingLOC, interceptingGS and followingILS false,
\* whatever the guidance state was before.
C21_AssignApproachEffect ==
  [][last'.op = "assignApproach" =>
       LET p == planes[last'.plane]
           after == planes'[last'.plane]
           pts == buildProcedurePoints(approachPaths, p.destination,
                                       last'.arg[1], last'.arg[2])
           built == IF pts.isNull THEN << >> ELSE pts.points
       IN  /\ after.assignedProcedure.type = "approach"
           /\ after.assignedProcedure.id = last'.arg[1]
           /\ after.procedureWaypoints = built
           /\ after.currentWaypointIndex = 0
           /\ after.autopilotActive
           /\ after.targetWaypoint =
                IF Len(built) > 0 THEN built[1] ELSE p.targetWaypoint
           /\ after.ilsData = FindIls(p.destination, last'.arg[1], built)
           /\ ~after.interceptingLOC
           /\ ~after.interceptingGS
           /\ ~after.followingILS]_vars

\* An approach has just been assigned to an aircraft whose localizer PID
\* holds the error of an earlier captured localizer.
C21_Witness ==
  /\ last.op = "assignApproach"
  /\ ~IsNaN(planes[last.plane].locPID.lastError)
  /\ planes[last.plane].locPID.lastError # 0
  /\ planes[last.plane].autopilotActive
  /\ planes[last.plane].currentWaypointIndex = 0
  /\ Len(planes[last.plane].procedureWaypoints) > 0
  /\ planes[last.plane].targetWaypoint = planes[last.plane].procedureWaypoints[1]
  /\ planes[last.plane].ilsData # NULL
  /\ ~planes[last.plane].interceptingLOC

\* C22: predictPath changes nothing but predictedPath, and runs only in a
\* frame whose sweep accumulator reaches SWEEP_INTERVAL_MS.  Such a frame
\* leaves every aircraft still in the collection with a predictedPath of
\* 60 s / sample interval points and with the live state its update
\* produced (only the display position and heading are refreshed besides);
\* every other frame and every command leaves predictedPath as it was.
C22_PredictPathFrame ==
  [][\A id \in DOMAIN planes :
       LET p == planes[id]
           after == planes'[id]
           swept == /\ last'.op = "gameLoop"
                    /\ timeSinceLastSweep + last'.arg >= SWEEP_INTERVAL_MS
                    /\ id \in Range(aircraftList')
       IN  /\ IF swept
              THEN Len(after.predictedPath) = 60000 \div SWEEP_INTERVAL_MS
              ELSE after.predictedPath = p.predictedPath
           /\ (last'.op = "gameLoop" /\ id \in Range(aircraftList)) =>
                LET u == Update(p, last'.arg)
                IN  [after EXCEPT !.predictedPath = u.predictedPath,
                                  !.displayX = u.displayX,
                                  !.displayY = u.displayY,
                                  !.displayHdg = u.displayHdg] = u]_vars

\* A sweep has just predicted the path of an aircraft in a turn.
C22_Witness ==
  /\ last.op = "gameLoop" /\ last.arg > 0 /\ timeSinceLastSweep = 0
  /\ \E id \in Range(aircraftList) :
       /\ Len(planes[id].predictedPath) = 60000 \div SWEEP_INTERVAL_MS
       /\ ~IsNaN(planes[id].heading) /\ ~IsNaN(planes[id].targetHdg)
       /\ planes[id].heading # planes[id].targetHdg
       /\ planes[id].predictedPath[1] # planes[id].predictedPath[2]

\* C23: a frame in which the wind vector cancels the true-airspeed vector,
\* so that the update computes groundSpeed 0, leaves lat and lon as they
\* were, whatever the frame's dt.
C23_NoGroundSpeedNoMove ==
  [][last'.op = "gameLoop" =>
       \A id \in Range(aircraftList) :
         (~IsNaN(planes'[id].groundSpeed) /\ planes'[id].groundSpeed = 0) =>
           /\ planes'[id].lat = planes[id].lat
           /\ planes'[id].lon = planes[id].lon]_vars

\* A frame of positive length has just updated an aircraft flying at the
\* wind speed straight into the wind.
C23_Witness ==
  /\ last.op = "gameLoop" /\ last.arg > 0
  /\ \E id \in Range(aircraftList) :
       /\ planes[id].groundSpeed = 0
       /\ planes[id].trueAirspeed = windSpeed
       /\ planes[id].heading = windDirection
       /\ planes[id].lat = 0 - 300 /\ planes[id].lon = 0 - 1510

\* Turn angles (deg10) the lead-turn radius is compared on, in rising order.
TurnAngles == << 0, 10, 50, 100, 300, 450, 900, 1350, 1800 >>

\* C24: for every aircraft, at its turn rate and its ground speed estimate,
\* the lead-turn capture radius is at least 0.2 km for every turn angle and
\* does not shrink when the absolute turn angle grows; the capture radius
\* at the active procedure waypoint is at least 0.2 km.
C24_CaptureRadiusMonotone ==
  \A id \in DOMAIN planes :
    LET p == planes[id]
        gs == VectorLength(GroundVector(
                TasEstimate(p.indicatedAirspeed, p.altitude), p.heading))
        cur == WaypointAt(p, p.currentWaypointIndex)
    IN  ~IsNaN(p.heading) =>
          /\ \A i \in 1..Len(TurnAngles) :
               LeadTurnRadius(TurnAngles[i], p.turnRate, gs) >= 20
          /\ \A i \in 1..(Len(TurnAngles) - 1) :
               LeadTurnRadius(TurnAngles[i], p.turnRate, gs)
                 <= LeadTurnRadius(TurnAngles[i + 1], p.turnRate, gs)
          /\ cur # NULL =>
               CaptureRadius(p, cur, WaypointAt(p, p.currentWaypointIndex + 1))
                 >= 20

\* An aircraft follows its procedure toward a waypoint whose lead-turn
\* radius for the next leg is above the 0.2 km minimum.
C24_Witness ==
  \E id \in Range(aircraftList) :
    /\ ProcedureFollowingActive(planes[id])
    /\ ~IsNaN(planes[id].heading)
    /\ WaypointAt(planes[id], planes[id].currentWaypointIndex) # NULL
    /\ WaypointAt(planes[id], planes[id].currentWaypointIndex + 1) # NULL
    /\ CaptureRadius(planes[id],
                     WaypointAt(planes[id], planes[id].currentWaypointIndex),
                     WaypointAt(planes[id],
                                planes[id].currentWaypointIndex + 1)) > 20

\* The rows buildProcedurePoints selects for an assigned approach.
SelectedRows(paths, icao, proc) ==
  IF proc.transition = NoTransition
  THEN SelectSeq(paths, LAMBDA r:
         r.icao = icao /\ r.id = proc.id /\ r.transitionId = "")
  ELSE SelectSeq(paths, LAMBDA r:
         r.icao = icao /\ r.id = proc.id /\ r.transitionId = proc.transition)

\* C25: the waypoint list of an assigned approach is in ascending sequence
\* order and holds no missed-approach row nor any row whose sequence number
\* is above that of a missed-approach row, in whatever order the approach
\* rows were supplied.  The code cuts at the first missed-approach row in
\* supply order and sorts afterwards.
C25_TruncatedInSequenceOrder ==
  \A id \in DOMAIN planes :
    planes[id].assignedProcedure # NULL =>
      LET rows == SelectedRows(approachPaths, planes[id].destination,
                               planes[id].assignedProcedure)
          wps == planes[id].procedureWaypoints
          missed == { r \in Range(rows) : IsMissedApproachRow(r) }
          inList == SelectSeq(SortBySeqno(rows), LAMBDA r:
                      RowsToPoints(<< r >>)[1] \in Range(wps))
      IN  /\ RowsToPoints(inList) = wps
          /\ \A r \in Range(inList) :
               /\ r \notin missed
               /\ \A m \in missed : r.seqno < m.seqno

\* C26: once the localizer is captured the heading step of every frame
\* turns toward the heading the localizer PID commanded in the previous
\* update, which is the targetHdg the frame finds unless setHeading was the
\* last command; a flyDirectTo issued after the capture does not change
\* that.  The direct-to block runs first and replaces targetHdg whenever
\* the autopilot is engaged on a waypoint and followingILS is false.
C26_LocalizerOverridesSteering ==
  [][(last'.op = "gameLoop" /\ last.op # "setHeading") =>
       \A id \in Range(aircraftList) :
         LET p == planes[id]
         IN  (IlsActive(p) /\ p.interceptingLOC) =>
               planes'[id].heading = HeadingLogic(p, last'.arg).heading]_vars

\* C27: an aircraft in ad-hoc direct-to (autopilot engaged on a waypoint
\* outside its procedure sequence, currentWaypointIndex -1) is left by every
\* frame with the same targetWaypoint and currentWaypointIndex -1.  With a
\* non-empty procedure sequence the procedure-following block takes the
\* index -1 for "not started" and retargets the first procedure waypoint.
C27_AdHocDirectToPersists ==
  [][last'.op = "gameLoop" =>
       \A id \in Range(aircraftList) :
         LET p == planes[id]
         IN  (p.autopilotActive /\ p.targetWaypoint # NULL
                /\ p.currentWaypointIndex = 0 - 1) =>
               /\ planes'[id].targetWaypoint = p.targetWaypoint
               /\ planes'[id].currentWaypointIndex = 0 - 1]_vars

\* C28: with frames of positive length and no further command, an aircraft
\* that has entered the landing phase ends up landed and removed, so no
\* aircraft of the active collection is left in the landing phase at a
\* standstill (indicatedAirspeed = targetSpd = 0) where the landing trigger
\* does not hold.  The trigger is looked at again in every update: an
\* aircraft that leaves its region before slowing below 30 kn stays in the
\* landing phase, unlanded.
C28_LandingCompletes ==
  \A id \in Range(aircraftList) :
    ~(/\ planes[id].phase = "landing"
      /\ ~planes[id].landed
      /\ planes[id].targetSpd = 0
      /\ planes[id].indicatedAirspeed = 0
      /\ IlsActive(planes[id])
      /\ ~LandingTriggerCondition(planes[id], DistToThreshold(planes[id])))

\* C29: the ILS capture flags latch.  No frame and no setHeading, setSpeed,
\* setAltitude, flyDirectTo or setLocPID turns interceptingLOC,
\* interceptingGS or followingILS from true to false; assigning an approach
\* is the one step that does, and it resets all three.
C29_FlagsLatch ==
  [][\A id \in DOMAIN planes :
       IF last'.op = "assignApproach" /\ last'.plane = id
       THEN /\ ~planes'[id].interceptingLOC
            /\ ~planes'[id].interceptingGS
            /\ ~planes'[id].followingILS
       ELSE /\ planes[id].interceptingLOC => planes'[id].interceptingLOC
            /\ planes[id].interceptingGS => planes'[id].interceptingGS
            /\ planes[id].followingILS => planes'[id].followingILS]_vars

\* A steering command has just been given to an aircraft established on
\* the ILS, and the flags are still set.
C29_Witness ==
  /\ last.op \in {"setHeading", "flyDirectTo"}
  /\ planes[last.plane].interceptingLOC
  /\ planes[last.plane].interceptingGS
  /\ planes[last.plane].followingILS

\* The direct-to block of update computes a wind correction for p.
DirectToCorrects(p) ==
  p.targetWaypoint # NULL /\ p.autopilotActive /\ ~p.followingILS

\* The procedure-following block of update computes a lead-turn wind
\* correction for p: there is a current and a next procedure waypoint.
LeadTurnCorrects(p) ==
  /\ p.autopilotActive /\ Len(p.procedureWaypoints) > 0 /\ ~p.followingILS
  /\ LET i == IF p.currentWaypointIndex < 0 THEN 0
              ELSE p.currentWaypointIndex
     IN  WaypointAt(p, i) # NULL /\ WaypointAt(p, i + 1) # NULL

\* C30: whenever the next update of an aircraft computes a wind correction
\* (direct-to or lead-turn), the true-airspeed estimate it divides the
\* crosswind by is at least 1.0 kn.
C30_TasDivisorFloored ==
  \A id \in Range(aircraftList) :
    (DirectToCorrects(planes[id]) \/ LeadTurnCorrects(planes[id]))
      => TasEstimate(planes[id].indicatedAirspeed, planes[id].altitude) >= 10

====
